---- MODULE Spec2Model ----
(***************************************************************************)
(* skillforge: the interactive session manager (core/session.py), the      *)
(* exercise validator (core/validator.py), the progress and session models *)
(* (models/progress.py, models/session.py) and the session file written by *)
(* _save_progress / read by load_session.                                  *)
(*                                                                         *)
(* Text (answers, expected outputs) is a sequence of one-character         *)
(* strings, so that strip(), lower(), split() and `in` are computed as     *)
(* Python computes them.  Identifiers (lesson ids, exercise ids, session   *)
(* ids, hint texts) are atomic strings: the code only compares them.       *)
(* A timestamp is abstracted to the token Now: the code never reads the    *)
(* value of a timestamp, only whether it is None.                          *)
(*                                                                         *)
(* In Spec every write of the session file succeeds.  The display calls    *)
(* produce output only and change none of the state below.                 *)
(* KeyboardInterrupt is asynchronous: it may be raised at the prompts and  *)
(* at the heads of the lesson and exercise loops.                          *)
(*                                                                         *)
(* The specifications share the variables.  Spec is the session over      *)
(* the courses of Configs, the learner typing control commands, wrong      *)
(* answers and the expected outputs.  ShellSpec is the same session, with  *)
(* the same actions, over a course of shell exercises, the learner typing  *)
(* commands that change the simulator; LiveSpec is ShellSpec with a        *)
(* learner who leaves every prompt, CrashSpec is ShellSpec in a process    *)
(* that may die at a prompt.  ValSpec, SimSpec and VfsSpec call the        *)
(* methods of a validator, of a simulator and of a file system directly,   *)
(* with arguments drawn from bounded sets, no session running; GenSpec     *)
(* calls generate_course of a course generator (core/course_generator.py)  *)
(* on a cache that ages and is damaged.  SaveSpec takes _save_progress     *)
(* step by step, each disk operation succeeding or raising; RetrySpec      *)
(* takes _make_request_with_retry (utils/llm_client.py) request by         *)
(* request.                                                                *)
(***************************************************************************)
EXTENDS Integers, Sequences, FiniteSets, TLC

(***************************************************************************)
(* Bounds of the model.                                                    *)
(***************************************************************************)
\* answers a learner submits to one exercise before the model stops offering more
MaxAttempts == 2
\* value of _hint_count above which the model stops offering the hint command
MaxHints == 2

(***************************************************************************)
(* Optional[T]                                                             *)
(***************************************************************************)
None == [isNone |-> TRUE]

Some(v) == [isNone |-> FALSE, value |-> v]

IsNone(o) == o.isNone

\* datetime.now()
Now == "now"

(***************************************************************************)
(* Text                                                                    *)
(***************************************************************************)
\* str.isspace() on the one whitespace character of the alphabet
IsSpace(c) == c = " "

LowerMap ==
  [c \in {"G", "I", "T", "N", "Q", "U", "S", "K", "P", "L"} |->
     CASE c = "G" -> "g" [] c = "I" -> "i" [] c = "T" -> "t" [] c = "N" -> "n"
       [] c = "Q" -> "q" [] c = "U" -> "u" [] c = "S" -> "s" [] c = "K" -> "k"
       [] c = "P" -> "p" [] c = "L" -> "l"]

\* str.lower()
Lower(s) == [i \in 1..Len(s) |-> IF s[i] \in DOMAIN LowerMap THEN LowerMap[s[i]] ELSE s[i]]

RECURSIVE LStrip(_)
LStrip(s) == IF s # <<>> /\ IsSpace(Head(s)) THEN LStrip(Tail(s)) ELSE s

RECURSIVE RStrip(_)
RStrip(s) ==
  IF s # <<>> /\ IsSpace(s[Len(s)]) THEN RStrip(SubSeq(s, 1, Len(s) - 1)) ELSE s

\* str.strip()
Strip(s) == RStrip(LStrip(s))

\* " ".join(s.split()): runs of whitespace become one space, none at the ends
RECURSIVE Collapse(_)
Collapse(s) ==
  IF s = <<>> THEN <<>>
  ELSE IF IsSpace(Head(s))
       THEN (IF Len(s) > 1 /\ IsSpace(s[2]) THEN Collapse(Tail(s))
             ELSE <<" ">> \o Collapse(Tail(s)))
       ELSE <<Head(s)>> \o Collapse(Tail(s))

JoinSplit(s) == Collapse(Strip(s))

\* needle in hay
Contains(needle, hay) ==
  \E i \in 1..(Len(hay) + 1) :
    /\ i + Len(needle) - 1 <= Len(hay)
    /\ SubSeq(hay, i, i + Len(needle) - 1) = needle

\* the backtick character
BT == "backtick"

S_hint == <<"h", "i", "n", "t">>
S_skip == <<"s", "k", "i", "p">>
S_quit == <<"q", "u", "i", "t">>
S_exit == <<"e", "x", "i", "t">>
S_help == <<"h", "e", "l", "p">>
S_status == <<"s", "t", "a", "t", "u", "s">>
S_git_init == <<"g", "i", "t", " ", "i", "n", "i", "t">>
S_git_status == <<"g", "i", "t", " ", "s", "t", "a", "t", "u", "s">>
S_wrong == <<"w", "r", "o", "n", "g">>
S_empty == <<>>
S_ls == <<"l", "s">>
S_bt_ls == <<BT, "l", "s", BT>>
S_Quit_padded == <<" ", "Q", "u", "i", "t", " ">>
S_bt_skip == <<BT, "s", "k", "i", "p", BT>>

\* a vocabulary in which status is no command
SPECIAL_COMMANDS_NoStatus == {S_hint, S_skip, S_quit, S_exit, S_help}

SPECIAL_COMMANDS == {S_hint, S_skip, S_quit, S_exit, S_help, S_status}

(***************************************************************************)
(* Courses                                                                 *)
(***************************************************************************)
Exercise(id, expected, hints) ==
  [id |-> id, expected_output |-> expected, hints |-> hints]

Lesson(id, exercises) == [id |-> id, exercises |-> exercises]

Course(id, lessons) == [id |-> id, lessons |-> lessons]

\* one lesson, two exercises: "git init", "git status"
CourseGit ==
  Course("git",
    << Lesson("l0", << Exercise("e0_0", Some(S_git_init), <<"h1", "h2">>),
                       Exercise("e0_1", Some(S_git_status), <<>>) >>) >>)

\* two lessons of one exercise each
CourseTwo ==
  Course("two",
    << Lesson("l0", << Exercise("e0_0", Some(S_git_init), <<"h1">>) >>),
       Lesson("l1", << Exercise("e1_0", Some(S_ls), <<>>) >>) >>)

\* no lessons
CourseEmpty == Course("empty", <<>>)

\* a lesson without exercises before a lesson with one
CourseHollow ==
  Course("hollow",
    << Lesson("l0", <<>>),
       Lesson("l1", << Exercise("e1_0", Some(S_git_init), <<>>) >>) >>)

\* expected outputs that read as a control command, are wrapped in backticks
CourseTricky ==
  Course("tricky",
    << Lesson("l0", << Exercise("e0_0", Some(S_quit), <<>>) >>),
       Lesson("l1", << Exercise("e1_0", Some(S_bt_ls), <<>>) >>) >>)

\* no expected output, empty expected output
CourseOpen ==
  Course("open",
    << Lesson("l0", << Exercise("e0_0", None, <<"h1">>),
                       Exercise("e0_1", Some(S_empty), <<>>) >>) >>)

\* the course of the session and whether an LLM client is configured
Configs ==
  {[course |-> CourseGit, has_llm |-> FALSE],
   [course |-> CourseTwo, has_llm |-> TRUE],
   [course |-> CourseEmpty, has_llm |-> FALSE],
   [course |-> CourseHollow, has_llm |-> FALSE],
   [course |-> CourseTricky, has_llm |-> FALSE],
   [course |-> CourseOpen, has_llm |-> TRUE],
   [course |-> CourseOpen, has_llm |-> FALSE]}

(***************************************************************************)
(* ExerciseValidator (core/validator.py).  A score is in tenths.           *)
(***************************************************************************)
CORRECT == "correct"
INCORRECT == "incorrect"
PARTIAL == "partial"

ValidationResult(status, score, hints, match_type, source, llm_called) ==
  [status |-> status, score |-> score, hints |-> hints,
   match_type |-> match_type, source |-> source, llm_called |-> llm_called]

\* what llm_client.generate does for one call: it raises, or it returns a text
\* whose "Status:" line reads `status` and whose "Hint:" line reads `hint`
LLMReplies ==
  { [raises |-> TRUE, status |-> "none", score |-> 5, hint |-> None],
    [raises |-> FALSE, status |-> "correct", score |-> 10, hint |-> None],
    [raises |-> FALSE, status |-> "incorrect", score |-> 0, hint |-> Some("llm_hint")],
    [raises |-> FALSE, status |-> "partial", score |-> 5, hint |-> None],
    [raises |-> FALSE, status |-> "unreadable", score |-> 5, hint |-> None] }

\* `if exercise.expected_output:` is false for None and for the empty string
Truthy(expected) == ~IsNone(expected) /\ expected.value # <<>>

_get_exercise_hints(exercise, hint_index) ==
  IF exercise.hints = <<>> THEN <<>>
  ELSE IF hint_index >= Len(exercise.hints) THEN <<>>
  ELSE <<exercise.hints[hint_index + 1]>>

NoPattern == [matched |-> FALSE]

Pattern(r) == [matched |-> TRUE, result |-> r]

\* a pattern tier that never decides
_validate_with_pattern_Skipped(exercise, user_answer) == NoPattern

\* pattern stages that look for the answer inside the expected output before they
\* look for the expected output inside the answer
_validate_with_pattern_SubsetFirst(exercise, user_answer) ==
  IF IsNone(exercise.expected_output) THEN NoPattern
  ELSE
    LET expected_stripped == Strip(exercise.expected_output.value) IN
    IF user_answer = expected_stripped
      THEN Pattern(ValidationResult(CORRECT, 10, <<>>, "exact", "pattern", FALSE))
    ELSE IF Contains(Lower(user_answer), Lower(expected_stripped))
      THEN Pattern(ValidationResult(PARTIAL, 5, _get_exercise_hints(exercise, 0),
                                    "subset", "pattern", FALSE))
    ELSE IF Lower(user_answer) = Lower(expected_stripped)
      THEN Pattern(ValidationResult(CORRECT, 10, <<>>, "case_insensitive", "pattern", FALSE))
    ELSE IF JoinSplit(user_answer) = JoinSplit(expected_stripped)
      THEN Pattern(ValidationResult(CORRECT, 10, <<>>, "normalized_whitespace", "pattern", FALSE))
    ELSE IF Contains(Lower(expected_stripped), Lower(user_answer))
      THEN Pattern(ValidationResult(PARTIAL, 7, _get_exercise_hints(exercise, 0),
                                    "contains", "pattern", FALSE))
    ELSE NoPattern

_validate_with_pattern(exercise, user_answer) ==
  IF IsNone(exercise.expected_output) THEN NoPattern
  ELSE
    LET expected_stripped == Strip(exercise.expected_output.value) IN
    IF user_answer = expected_stripped
      THEN Pattern(ValidationResult(CORRECT, 10, <<>>, "exact", "pattern", FALSE))
    ELSE IF Lower(user_answer) = Lower(expected_stripped)
      THEN Pattern(ValidationResult(CORRECT, 10, <<>>, "case_insensitive", "pattern", FALSE))
    ELSE IF JoinSplit(user_answer) = JoinSplit(expected_stripped)
      THEN Pattern(ValidationResult(CORRECT, 10, <<>>, "normalized_whitespace", "pattern", FALSE))
    ELSE IF Contains(Lower(expected_stripped), Lower(user_answer))
      THEN Pattern(ValidationResult(PARTIAL, 7, _get_exercise_hints(exercise, 0),
                                    "contains", "pattern", FALSE))
    ELSE IF Contains(Lower(user_answer), Lower(expected_stripped))
      THEN Pattern(ValidationResult(PARTIAL, 5, _get_exercise_hints(exercise, 0),
                                    "subset", "pattern", FALSE))
    ELSE NoPattern

\* a basic validation that accepts any answer when no expected output is defined
_validate_basic_Accepts(exercise, user_answer) ==
  IF IsNone(exercise.expected_output)
    THEN ValidationResult(CORRECT, 10, <<>>, "no_expected_output", "basic", FALSE)
    ELSE ValidationResult(INCORRECT, 0, _get_exercise_hints(exercise, 0),
                          "no_match", "basic", FALSE)

\* _validate_basic
_validate_basic(exercise, user_answer) ==
  IF IsNone(exercise.expected_output)
    THEN ValidationResult(PARTIAL, 5, <<>>, "no_expected_output", "basic", FALSE)
    ELSE ValidationResult(INCORRECT, 0, _get_exercise_hints(exercise, 0),
                          "no_match", "basic", FALSE)

_parse_llm_response(reply, exercise) ==
  LET status == IF reply.status = "correct" THEN CORRECT
                ELSE IF reply.status = "incorrect" THEN INCORRECT
                ELSE PARTIAL
      llm_hints == IF IsNone(reply.hint) THEN <<>> ELSE <<reply.hint.value>>
      hints == IF status # CORRECT
                 THEN llm_hints \o _get_exercise_hints(exercise, 0)
                 ELSE llm_hints
  IN ValidationResult(status, reply.score, hints, "none", "llm", TRUE)

\* an LLM tier that scores the answer as incorrect when the call raised
_validate_with_llm_Fails(exercise, user_answer, reply) ==
  IF reply.raises
    THEN ValidationResult(INCORRECT, 0, <<>>, "none", "error", TRUE)
    ELSE _parse_llm_response(reply, exercise)

_validate_with_llm(exercise, user_answer, reply) ==
  IF reply.raises
    THEN ValidationResult(PARTIAL, 5, <<>>, "none", "error", TRUE)
    ELSE _parse_llm_response(reply, exercise)

\* a validate that asks the client, when there is one, before the pattern stages
validate_LLMFirst(exercise, raw_answer, has_llm, reply) ==
  LET user_answer == Strip(raw_answer) IN
  IF user_answer = <<>>
    THEN ValidationResult(INCORRECT, 0, _get_exercise_hints(exercise, 0),
                          "none", "empty", FALSE)
  ELSE IF has_llm THEN _validate_with_llm(exercise, user_answer, reply)
  ELSE
    LET p == IF Truthy(exercise.expected_output)
               THEN _validate_with_pattern(exercise, user_answer)
               ELSE NoPattern
    IN IF p.matched THEN p.result
       ELSE _validate_basic(exercise, user_answer)

\* validate(exercise, user_answer): has_llm tells whether a client is configured,
\* reply is what the client does if it is called
validate(exercise, raw_answer, has_llm, reply) ==
  LET user_answer == Strip(raw_answer) IN
  IF user_answer = <<>>
    THEN ValidationResult(INCORRECT, 0, _get_exercise_hints(exercise, 0),
                          "none", "empty", FALSE)
  ELSE
    LET p == IF Truthy(exercise.expected_output)
               THEN _validate_with_pattern(exercise, user_answer)
               ELSE NoPattern
    IN IF p.matched THEN p.result
       ELSE IF has_llm THEN _validate_with_llm(exercise, user_answer, reply)
       ELSE _validate_basic(exercise, user_answer)

FallbackHint == "Review the exercise instructions carefully and try again."

\* a generate_hint that repeats the last stored hint once they are used up
generate_hint_Repeats(exercise, attempt_number, has_llm, reply) ==
  IF exercise.hints # <<>>
    THEN exercise.hints[IF attempt_number <= Len(exercise.hints)
                          THEN attempt_number ELSE Len(exercise.hints)]
  ELSE IF has_llm
    THEN (IF reply.raises THEN FallbackHint ELSE "llm_hint")
  ELSE FallbackHint

\* generate_hint(exercise, user_answer, attempt_number)
generate_hint(exercise, attempt_number, has_llm, reply) ==
  IF exercise.hints # <<>> /\ attempt_number <= Len(exercise.hints)
    THEN exercise.hints[attempt_number]
  ELSE IF has_llm
    THEN (IF reply.raises THEN FallbackHint ELSE "llm_hint")
  ELSE FallbackHint

(***************************************************************************)
(* VirtualFileSystem (core/simulator.py).  A path is a string; files maps  *)
(* the normalized path of a file to its content, directories is the set    *)
(* of normalized paths of directories.  A method that can raise returns a  *)
(* record whose field raised names the exception, "none" if it returns.    *)
(***************************************************************************)
\* str.split(sep) for a separator of one character
RECURSIVE SplitOn(_, _)
SplitOn(s, sep) ==
  IF \A i \in 1..Len(s) : s[i] # sep THEN <<s>>
  ELSE LET k == CHOOSE i \in 1..Len(s) : s[i] = sep /\ \A j \in 1..(i - 1) : s[j] # sep
       IN <<SubSeq(s, 1, k - 1)>> \o SplitOn(SubSeq(s, k + 1, Len(s)), sep)

\* str.split(): the words between runs of whitespace
SplitWords(s) == IF JoinSplit(s) = <<>> THEN <<>> ELSE SplitOn(JoinSplit(s), " ")

\* sep.join(parts)
RECURSIVE Join(_, _)
Join(parts, sep) ==
  IF parts = <<>> THEN <<>>
  ELSE IF Len(parts) = 1 THEN parts[1]
  ELSE parts[1] \o sep \o Join(Tail(parts), sep)

StartsWith(s, prefix) ==
  Len(s) >= Len(prefix) /\ SubSeq(s, 1, Len(prefix)) = prefix

EndsWith(s, suffix) ==
  Len(s) >= Len(suffix) /\ SubSeq(s, Len(s) - Len(suffix) + 1, Len(s)) = suffix

Root == <<"/">>

HomeUser == <<"/", "h", "o", "m", "e", "/", "u", "s", "e", "r">>

\* VirtualFileSystem.__init__
VirtualFileSystem ==
  [files |-> [p \in {} |-> <<>>],
   directories |-> {Root, <<"/", "h", "o", "m", "e">>, HomeUser, <<"/", "t", "m", "p">>},
   current_dir |-> HomeUser]

\* a loop that drops the empty parts only and keeps . and ..
NormalizeParts_KeepsDots(rest, parts) ==
  parts \o SelectSeq(rest, LAMBDA part : part # <<>>)

\* normalize_path, lines 66-72: the loop over path.split("/")
RECURSIVE NormalizeParts(_, _)
NormalizeParts(rest, parts) ==
  IF rest = <<>> THEN parts
  ELSE LET part == Head(rest) IN
       IF part = <<".", ".">>
         THEN NormalizeParts(Tail(rest),
                IF parts # <<>> THEN SubSeq(parts, 1, Len(parts) - 1) ELSE parts)
       ELSE IF part # <<>> /\ part # <<".">>
         THEN NormalizeParts(Tail(rest), Append(parts, part))
       ELSE NormalizeParts(Tail(rest), parts)

normalize_path(fs, path) ==
  LET absolute ==
        IF ~StartsWith(path, Root)
          THEN (IF fs.current_dir = Root THEN Root \o path
                ELSE fs.current_dir \o Root \o path)
          ELSE path
      parts == NormalizeParts(SplitOn(absolute, "/"), <<>>)
  IN IF parts # <<>> THEN Root \o Join(parts, Root) ELSE Root

\* str(Path(norm_path).parent) for a normalized path
Parent(norm_path) ==
  LET parts == NormalizeParts(SplitOn(norm_path, "/"), <<>>) IN
  IF Len(parts) <= 1 THEN Root
  ELSE Root \o Join(SubSeq(parts, 1, Len(parts) - 1), Root)

exists(fs, path) ==
  LET norm_path == normalize_path(fs, path) IN
  norm_path \in DOMAIN fs.files \/ norm_path \in fs.directories

is_file(fs, path) == normalize_path(fs, path) \in DOMAIN fs.files

is_directory(fs, path) == normalize_path(fs, path) \in fs.directories

read_file(fs, path) ==
  LET norm_path == normalize_path(fs, path) IN
  IF norm_path \notin DOMAIN fs.files
    THEN [raised |-> "FileNotFoundError"]
    ELSE [raised |-> "none", value |-> fs.files[norm_path]]

\* a write_file that keeps the content of a file that exists
write_file_KeepsOld(fs, path, content) ==
  LET norm_path == normalize_path(fs, path) IN
  [fs EXCEPT
     !.directories = @ \cup {Parent(norm_path)},
     !.files = [p \in DOMAIN @ \cup {norm_path} |->
                  IF p \in DOMAIN @ THEN @[p] ELSE content]]

write_file(fs, path, content) ==
  LET norm_path == normalize_path(fs, path)
      parent == Parent(norm_path)
  IN [fs EXCEPT
        !.directories = @ \cup {parent},
        !.files = [p \in DOMAIN @ \cup {norm_path} |->
                     IF p = norm_path THEN content ELSE @[p]]]

\* list_directory: the names of the direct children (the code returns them sorted)
list_directory(fs, path) ==
  LET norm_path == normalize_path(fs, path)
      prefix == IF norm_path = Root THEN Root ELSE norm_path \o Root
      ChildOf(p) == /\ StartsWith(p, prefix)
                    /\ \A i \in (Len(prefix) + 1)..Len(p) : p[i] # "/"
      Name(p) == SubSeq(p, Len(prefix) + 1, Len(p))
  IN IF ~exists(fs, norm_path) THEN [raised |-> "FileNotFoundError"]
     ELSE IF ~is_directory(fs, norm_path) THEN [raised |-> "NotADirectoryError"]
     ELSE [raised |-> "none",
           value |-> {Name(p) : p \in {q \in DOMAIN fs.files : ChildOf(q)}}
                     \cup {Name(p) : p \in {q \in fs.directories :
                                              q # norm_path /\ ChildOf(q)}}]

\* create_directory, lines 194-197: the missing ancestors are added
RECURSIVE AddParents(_, _)
AddParents(directories, parent) ==
  IF parent \notin directories /\ parent # Root
    THEN AddParents(directories \cup {parent}, Parent(parent))
    ELSE directories

\* a create_directory that adds the path alone
create_directory_OnlyLeaf(fs, path) ==
  [fs EXCEPT !.directories = @ \cup {normalize_path(fs, path)}]

create_directory(fs, path) ==
  LET norm_path == normalize_path(fs, path) IN
  [fs EXCEPT !.directories = AddParents(@ \cup {norm_path}, Parent(norm_path))]

touch(fs, path) ==
  IF normalize_path(fs, path) \notin DOMAIN fs.files
    THEN write_file(fs, path, <<>>)
    ELSE fs

(***************************************************************************)
(* CommandSimulator (core/simulator.py).  simulate returns its             *)
(* SimulationResult together with the simulator after the call, in the     *)
(* field sim.  The text of a fixed output or error message is a string     *)
(* that stands for it; state_changes, which no caller reads, is left out.  *)
(***************************************************************************)
\* CommandSimulator.__init__, lines 222-229
CommandSimulator ==
  [filesystem |-> VirtualFileSystem,
   environment |-> [k \in {"HOME", "USER", "PATH"} |->
                      IF k = "HOME" THEN HomeUser
                      ELSE IF k = "USER" THEN "user"
                      ELSE "/usr/local/bin:/usr/bin:/bin"],
   python_imports |-> {},
   python_variables |-> [v \in {} |-> <<>>]]

\* a reset that keeps the file system
reset_KeepsFiles(sim) ==
  [sim EXCEPT !.environment = CommandSimulator.environment,
              !.python_imports = {},
              !.python_variables = CommandSimulator.python_variables]

\* reset, lines 725-734
reset(sim) ==
  [filesystem |-> VirtualFileSystem,
   environment |-> CommandSimulator.environment,
   python_imports |-> {},
   python_variables |-> [v \in {} |-> <<>>]]

SimulationResult(sim, success, output, error, exit_code) ==
  [raised |-> "none", success |-> success, output |-> output, error |-> error,
   exit_code |-> exit_code, llm_called |-> FALSE, sim |-> sim]

\* an exception that leaves simulate
Raised(sim, exception) ==
  [raised |-> exception, success |-> FALSE, output |-> "", error |-> None,
   exit_code |-> 0, llm_called |-> FALSE, sim |-> sim]

\* what llm_client.generate does for a call of the simulator: it raises, or it
\* returns a text that holds "Success: yes" or does not
SimReplies ==
  { [raises |-> TRUE, success_yes |-> FALSE],
    [raises |-> FALSE, success_yes |-> TRUE],
    [raises |-> FALSE, success_yes |-> FALSE] }

\* shlex.split(command): POSIX rules, whitespace_split, no comments.  state is
\* "ws" between tokens, "word" inside one, "sq" / "dq" inside quotes, "esc" after
\* a backslash
RECURSIVE ShlexScan(_, _, _, _, _, _, _)
ShlexScan(s, i, state, token, quoted, escapedstate, parts) ==
  LET Emit == IF token # <<>> \/ quoted THEN Append(parts, token) ELSE parts IN
  IF i > Len(s)
    THEN (IF state \in {"sq", "dq", "esc"}
            THEN [error |-> TRUE, parts |-> <<>>]
            ELSE [error |-> FALSE, parts |-> Emit])
  ELSE
    LET c == s[i] IN
    CASE state = "ws" ->
           IF IsSpace(c) THEN ShlexScan(s, i + 1, "ws", token, quoted, escapedstate, parts)
           ELSE IF c = "\\" THEN ShlexScan(s, i + 1, "esc", token, quoted, "word", parts)
           ELSE IF c = "'" THEN ShlexScan(s, i + 1, "sq", token, TRUE, escapedstate, parts)
           ELSE IF c = "\"" THEN ShlexScan(s, i + 1, "dq", token, TRUE, escapedstate, parts)
           ELSE ShlexScan(s, i + 1, "word", <<c>>, quoted, escapedstate, parts)
      [] state = "word" ->
           IF IsSpace(c) THEN ShlexScan(s, i + 1, "ws", <<>>, FALSE, escapedstate, Emit)
           ELSE IF c = "\\" THEN ShlexScan(s, i + 1, "esc", token, quoted, "word", parts)
           ELSE IF c = "'" THEN ShlexScan(s, i + 1, "sq", token, TRUE, escapedstate, parts)
           ELSE IF c = "\"" THEN ShlexScan(s, i + 1, "dq", token, TRUE, escapedstate, parts)
           ELSE ShlexScan(s, i + 1, "word", Append(token, c), quoted, escapedstate, parts)
      [] state = "sq" ->
           IF c = "'" THEN ShlexScan(s, i + 1, "word", token, quoted, escapedstate, parts)
           ELSE ShlexScan(s, i + 1, "sq", Append(token, c), quoted, escapedstate, parts)
      [] state = "dq" ->
           IF c = "\"" THEN ShlexScan(s, i + 1, "word", token, quoted, escapedstate, parts)
           ELSE IF c = "\\" THEN ShlexScan(s, i + 1, "esc", token, quoted, "dq", parts)
           ELSE ShlexScan(s, i + 1, "dq", Append(token, c), quoted, escapedstate, parts)
      [] state = "esc" ->
           ShlexScan(s, i + 1, escapedstate,
                     IF escapedstate = "dq" /\ c # "\\" /\ c # "\""
                       THEN token \o <<"\\", c>>
                       ELSE Append(token, c),
                     quoted, escapedstate, parts)

\* shlex.split: error is the ValueError of an open quote or a trailing backslash
shlex_split(command) == ShlexScan(command, 1, "ws", <<>>, FALSE, "word", <<>>)

\* the characters of the model's alphabet that \w does not match
NonWordChars ==
  {" ", "/", ".", "=", "(", ")", "'", "\"", "\\", "-", ":", ",", BT}

\* the length of the longest run of \w (of \s) characters of s that starts at i
WordSpan(s, i) ==
  LET ends == {k \in i..(Len(s) + 1) : \A m \in i..(k - 1) : s[m] \notin NonWordChars}
  IN (CHOOSE k \in ends : \A j \in ends : j <= k) - i

SpaceSpan(s, i) ==
  LET ends == {k \in i..(Len(s) + 1) : \A m \in i..(k - 1) : IsSpace(s[m])}
  IN (CHOOSE k \in ends : \A j \in ends : j <= k) - i

\* re.match(r"(\w+)\s*=\s*(.+)", code): the groups, if it matches
AssignMatch(code) ==
  LET w == WordSpan(code, 1)
      eq == w + 1 + SpaceSpan(code, w + 1)
      rest == SubSeq(code, eq + 1, Len(code))
      value == IF LStrip(rest) # <<>> THEN LStrip(rest)
               ELSE SubSeq(rest, Len(rest), Len(rest))
  IN IF w >= 1 /\ eq <= Len(code) /\ code[eq] = "=" /\ rest # <<>>
       THEN [matched |-> TRUE, var_name |-> SubSeq(code, 1, w), var_value |-> value]
       ELSE [matched |-> FALSE]

\* re.match(r'print\(["\'](.+?)["\']\)', code)
PrintMatch(code) ==
  /\ Len(code) >= 7
  /\ SubSeq(code, 1, 6) = <<"p", "r", "i", "n", "t", "(">>
  /\ code[7] \in {"\"", "'"}
  /\ \E k \in 9..(Len(code) - 1) : code[k] \in {"\"", "'"} /\ code[k + 1] = ")"

\* _is_python_code, lines 430-440
_is_python_code(command) ==
  LET Keyword(kw) ==   \* ^kw\s+\w+
        /\ StartsWith(command, kw)
        /\ SpaceSpan(command, Len(kw) + 1) >= 1
        /\ WordSpan(command, Len(kw) + 1 + SpaceSpan(command, Len(kw) + 1)) >= 1
      after_from == Len(<<"f", "r", "o", "m">>) + 1 + SpaceSpan(command, Len(<<"f", "r", "o", "m">>) + 1)
      after_module == after_from + WordSpan(command, after_from)
      after_def == Len(<<"d", "e", "f">>) + 1 + SpaceSpan(command, Len(<<"d", "e", "f">>) + 1)
      after_name == after_def + WordSpan(command, after_def)
  IN \/ Keyword(<<"i", "m", "p", "o", "r", "t">>)
     \/ /\ Keyword(<<"f", "r", "o", "m">>)
        /\ SpaceSpan(command, after_module) >= 1
        /\ StartsWith(SubSeq(command, after_module + SpaceSpan(command, after_module),
                             Len(command)), <<"i", "m", "p", "o", "r", "t">>)
     \/ AssignMatch(command).matched
     \/ StartsWith(command, <<"p", "r", "i", "n", "t", "(">>)
     \/ /\ Keyword(<<"d", "e", "f">>)
        /\ after_name <= Len(command)
        /\ command[after_name] = "("
     \/ Keyword(<<"c", "l", "a", "s", "s">>)

\* an LLM fallback without its try/except: the exception of the client leaves it
_simulate_with_llm_Propagates(sim, has_llm, reply) ==
  IF ~has_llm
    THEN SimulationResult(sim, FALSE, "", Some("Unknown command"), 127)
  ELSE IF reply.raises
    THEN [Raised(sim, "Exception") EXCEPT !.llm_called = TRUE]
  ELSE [SimulationResult(sim, reply.success_yes, "llm_output", None,
                         IF reply.success_yes THEN 0 ELSE 1)
          EXCEPT !.llm_called = TRUE]

\* _simulate_with_llm, lines 649-723
_simulate_with_llm(sim, has_llm, reply) ==
  IF ~has_llm
    THEN SimulationResult(sim, FALSE, "", Some("Unknown command"), 127)
  ELSE IF reply.raises
    THEN [SimulationResult(sim, FALSE, "", Some("Simulation error"), 1)
            EXCEPT !.llm_called = TRUE]
  ELSE [SimulationResult(sim, reply.success_yes, "llm_output", None,
                         IF reply.success_yes THEN 0 ELSE 1)
          EXCEPT !.llm_called = TRUE]

\* str.replace(old, ""): every occurrence of old, from the left, is removed
RECURSIVE Remove(_, _)
Remove(s, old) ==
  IF s = <<>> THEN <<>>
  ELSE IF StartsWith(s, old) THEN Remove(SubSeq(s, Len(old) + 1, Len(s)), old)
  ELSE <<Head(s)>> \o Remove(Tail(s), old)

\* _simulate_python_import, lines 476-494; an index out of range raises IndexError
_simulate_python_import(sim, code) ==
  LET words == IF StartsWith(code, <<"i", "m", "p", "o", "r", "t", " ">>)
                 THEN SplitWords(Remove(code, <<"i", "m", "p", "o", "r", "t", " ">>))
                 ELSE SplitWords(code)
      index == IF StartsWith(code, <<"i", "m", "p", "o", "r", "t", " ">>) THEN 1 ELSE 2
      module == SplitOn(words[index], ".")[1]
  IN IF ~StartsWith(code, <<"i", "m", "p", "o", "r", "t", " ">>) /\ ~StartsWith(code, <<"f", "r", "o", "m", " ">>)
       THEN SimulationResult(sim, FALSE, "", Some("Invalid import syntax"), 1)
     ELSE IF Len(words) < index THEN Raised(sim, "IndexError")
     ELSE SimulationResult([sim EXCEPT !.python_imports = @ \cup {module}],
                           TRUE, "", None, 0)

\* _simulate_python_code, lines 442-474
_simulate_python_code(sim, raw_code, has_llm, reply) ==
  LET code == Strip(raw_code)
      assign_match == AssignMatch(code)
  IN IF StartsWith(code, <<"i", "m", "p", "o", "r", "t", " ">>) \/ StartsWith(code, <<"f", "r", "o", "m", " ">>)
       THEN _simulate_python_import(sim, code)
     ELSE IF PrintMatch(code)
       THEN SimulationResult(sim, TRUE, "print_group", None, 0)
     ELSE IF assign_match.matched
       THEN SimulationResult(
              [sim EXCEPT !.python_variables =
                 [v \in DOMAIN @ \cup {assign_match.var_name} |->
                    IF v = assign_match.var_name THEN assign_match.var_value ELSE @[v]]],
              TRUE, "", None, 0)
     ELSE _simulate_with_llm(sim, has_llm, reply)

\* _simulate_python_command, lines 397-428
_simulate_python_command(sim, args, has_llm, reply) ==
  IF args = <<>> THEN SimulationResult(sim, TRUE, "python_banner", None, 0)
  ELSE IF args[1] = <<"-", "c">> /\ Len(args) > 1
    THEN _simulate_python_code(sim, args[2], has_llm, reply)
  ELSE IF EndsWith(args[1], <<".", "p", "y">>)
    THEN LET code == read_file(sim.filesystem, args[1]) IN
         IF code.raised = "FileNotFoundError"
           THEN SimulationResult(sim, FALSE, "", Some("can't open file"), 2)
           ELSE _simulate_python_code(sim, code.value, has_llm, reply)
  ELSE _simulate_with_llm(sim, has_llm, reply)

_simulate_echo(sim, args) == SimulationResult(sim, TRUE, Join(args, <<" ">>), None, 0)

_simulate_ls(sim, args) ==
  LET files == list_directory(sim.filesystem, IF args # <<>> THEN args[1] ELSE <<".">>) IN
  IF files.raised = "none"
    THEN SimulationResult(sim, TRUE, files.value, None, 0)
    ELSE SimulationResult(sim, FALSE, "", Some(files.raised), 1)

_simulate_cat(sim, args) ==
  IF args = <<>> THEN SimulationResult(sim, FALSE, "", Some("cat: missing file operand"), 1)
  ELSE LET content == read_file(sim.filesystem, args[1]) IN
       IF content.raised = "none"
         THEN SimulationResult(sim, TRUE, content.value, None, 0)
         ELSE SimulationResult(sim, FALSE, "", Some(content.raised), 1)

_simulate_mkdir(sim, args) ==
  IF args = <<>> THEN SimulationResult(sim, FALSE, "", Some("mkdir: missing operand"), 1)
  ELSE SimulationResult([sim EXCEPT !.filesystem = create_directory(@, args[1])],
                        TRUE, "", None, 0)

_simulate_touch(sim, args) ==
  IF args = <<>> THEN SimulationResult(sim, FALSE, "", Some("touch: missing file operand"), 1)
  ELSE SimulationResult([sim EXCEPT !.filesystem = touch(@, args[1])], TRUE, "", None, 0)

\* a cd that does not look whether its target is a directory
_simulate_cd_Unchecked(sim, args) ==
  IF args = <<>>
    THEN SimulationResult(
           [sim EXCEPT !.filesystem.current_dir =
              IF "HOME" \in DOMAIN sim.environment THEN sim.environment["HOME"]
              ELSE HomeUser],
           TRUE, "", None, 0)
  ELSE SimulationResult(
         [sim EXCEPT !.filesystem.current_dir = normalize_path(sim.filesystem, args[1])],
         TRUE, "", None, 0)

\* a cd that fails on a target that is no directory and has moved there
_simulate_cd_MovesAnyway(sim, args) ==
  IF args = <<>>
    THEN SimulationResult(
           [sim EXCEPT !.filesystem.current_dir =
              IF "HOME" \in DOMAIN sim.environment THEN sim.environment["HOME"]
              ELSE HomeUser],
           TRUE, "", None, 0)
  ELSE LET norm_path == normalize_path(sim.filesystem, args[1]) IN
       SimulationResult([sim EXCEPT !.filesystem.current_dir = norm_path],
                        is_directory(sim.filesystem, norm_path), "",
                        IF is_directory(sim.filesystem, norm_path) THEN None
                        ELSE Some("cd: No such file or directory"),
                        IF is_directory(sim.filesystem, norm_path) THEN 0 ELSE 1)

\* CommandSimulator._simulate_cd
_simulate_cd(sim, args) ==
  IF args = <<>>
    THEN SimulationResult(
           [sim EXCEPT !.filesystem.current_dir =
              IF "HOME" \in DOMAIN sim.environment THEN sim.environment["HOME"]
              ELSE HomeUser],
           TRUE, "", None, 0)
  ELSE LET norm_path == normalize_path(sim.filesystem, args[1]) IN
       IF ~is_directory(sim.filesystem, norm_path)
         THEN SimulationResult(sim, FALSE, "", Some("cd: No such file or directory"), 1)
         ELSE SimulationResult([sim EXCEPT !.filesystem.current_dir = norm_path],
                               TRUE, "", None, 0)

_simulate_pwd(sim) == SimulationResult(sim, TRUE, sim.filesystem.current_dir, None, 0)

_simulate_pip(sim, args) ==
  IF args = <<>> THEN SimulationResult(sim, TRUE, "pip_usage", None, 0)
  ELSE IF args[1] = <<"i", "n", "s", "t", "a", "l", "l">>
    THEN (IF Len(args) < 2
            THEN SimulationResult(sim, FALSE, "", Some("ERROR: no requirement"), 1)
            ELSE SimulationResult(sim, TRUE, "Successfully installed", None, 0))
  ELSE IF args[1] = <<"l", "i", "s", "t">> THEN SimulationResult(sim, TRUE, "pip_list", None, 0)
  ELSE SimulationResult(sim, FALSE, "", Some("ERROR: unknown command"), 1)

_simulate_git(sim, args) ==
  IF args = <<>> THEN SimulationResult(sim, TRUE, "git_usage", None, 0)
  ELSE IF args[1] = <<"i", "n", "i", "t">>
    THEN SimulationResult(sim, TRUE, "Initialized empty Git repository", None, 0)
  ELSE IF args[1] = <<"s", "t", "a", "t", "u", "s">>
    THEN SimulationResult(sim, TRUE, "On branch main", None, 0)
  ELSE IF args[1] = <<"c", "l", "o", "n", "e">>
    THEN (IF Len(args) < 2
            THEN SimulationResult(sim, FALSE, "", Some("fatal: no repository"), 128)
            ELSE SimulationResult(sim, TRUE, "Cloning into", None, 0))
  ELSE SimulationResult(sim, TRUE, "git completed successfully", None, 0)

\* _simulate_docker, lines 580-616: every branch succeeds
_simulate_docker(sim, args) ==
  IF args = <<>> THEN SimulationResult(sim, TRUE, "docker_usage", None, 0)
  ELSE IF args[1] = <<"r", "u", "n">> THEN SimulationResult(sim, TRUE, "Running container", None, 0)
  ELSE IF args[1] = <<"p", "s">> THEN SimulationResult(sim, TRUE, "CONTAINER ID", None, 0)
  ELSE IF args[1] = <<"b", "u", "i", "l", "d">> THEN SimulationResult(sim, TRUE, "Successfully built", None, 0)
  ELSE SimulationResult(sim, TRUE, "docker completed successfully", None, 0)

\* _simulate_kubectl, lines 618-647: every branch succeeds
_simulate_kubectl(sim, args) ==
  IF args = <<>> THEN SimulationResult(sim, TRUE, "kubectl_usage", None, 0)
  ELSE IF args[1] = <<"g", "e", "t">> THEN SimulationResult(sim, TRUE, "NAME READY STATUS", None, 0)
  ELSE IF args[1] = <<"a", "p", "p", "l", "y">> THEN SimulationResult(sim, TRUE, "resource created", None, 0)
  ELSE SimulationResult(sim, TRUE, "kubectl completed successfully", None, 0)

\* simulate(command), lines 233-299
simulate(sim, raw_command, has_llm, reply) ==
  LET command == Strip(raw_command)
      split == shlex_split(command)
      parts == split.parts
      cmd == parts[1]
      args == Tail(parts)
  IN IF command = <<>> THEN SimulationResult(sim, TRUE, "", None, 0)
     ELSE IF split.error
       THEN SimulationResult(sim, FALSE, "", Some("Invalid command syntax"), 1)
     ELSE IF parts = <<>> THEN SimulationResult(sim, TRUE, "", None, 0)
     ELSE IF cmd = <<"e", "c", "h", "o">> THEN _simulate_echo(sim, args)
     ELSE IF cmd = <<"l", "s">> THEN _simulate_ls(sim, args)
     ELSE IF cmd = <<"c", "a", "t">> THEN _simulate_cat(sim, args)
     ELSE IF cmd = <<"m", "k", "d", "i", "r">> THEN _simulate_mkdir(sim, args)
     ELSE IF cmd = <<"t", "o", "u", "c", "h">> THEN _simulate_touch(sim, args)
     ELSE IF cmd = <<"c", "d">> THEN _simulate_cd(sim, args)
     ELSE IF cmd = <<"p", "w", "d">> THEN _simulate_pwd(sim)
     ELSE IF cmd = <<"p", "y", "t", "h", "o", "n">> \/ cmd = <<"p", "y", "t", "h", "o", "n", "3">>
       THEN _simulate_python_command(sim, args, has_llm, reply)
     ELSE IF cmd = <<"p", "i", "p">> \/ cmd = <<"p", "i", "p", "3">> THEN _simulate_pip(sim, args)
     ELSE IF cmd = <<"g", "i", "t">> THEN _simulate_git(sim, args)
     ELSE IF cmd = <<"d", "o", "c", "k", "e", "r">> THEN _simulate_docker(sim, args)
     ELSE IF cmd = <<"k", "u", "b", "e", "c", "t", "l">> THEN _simulate_kubectl(sim, args)
     ELSE IF _is_python_code(command)
       THEN _simulate_python_code(sim, command, has_llm, reply)
     ELSE _simulate_with_llm(sim, has_llm, reply)

(***************************************************************************)
(* Progress and session models (models/progress.py, models/session.py).    *)
(* ProgressStatus and SessionState are str enums: a member is its value.   *)
(***************************************************************************)
NOT_STARTED == "not_started"
IN_PROGRESS == "in_progress"
COMPLETED == "completed"
FAILED == "failed"
ProgressStatus == {NOT_STARTED, IN_PROGRESS, COMPLETED, FAILED}

ACTIVE == "active"
PAUSED == "paused"
ABANDONED == "abandoned"
SessionState == {ACTIVE, PAUSED, COMPLETED, ABANDONED}

ExerciseProgress(exercise_id) ==
  [exercise_id |-> exercise_id, status |-> NOT_STARTED, attempts |-> 0,
   user_answer |-> None, completed_at |-> None]

LessonProgress(lesson_id, exercise_progress) ==
  [lesson_id |-> lesson_id, status |-> NOT_STARTED,
   exercise_progress |-> exercise_progress,
   started_at |-> None, completed_at |-> None]

CourseProgress(course_id, lesson_progress) ==
  [course_id |-> course_id, user_id |-> "default", status |-> NOT_STARTED,
   lesson_progress |-> lesson_progress, current_lesson_index |-> 0,
   started_at |-> None, completed_at |-> None]

\* a course taken as complete only when every exercise of every lesson was completed
is_completed_ByExercises(progress) ==
  IF progress.lesson_progress = <<>> THEN FALSE
  ELSE \A i \in 1..Len(progress.lesson_progress) :
         /\ progress.lesson_progress[i].exercise_progress # <<>>
         /\ \A j \in 1..Len(progress.lesson_progress[i].exercise_progress) :
               progress.lesson_progress[i].exercise_progress[j].status = COMPLETED

\* CourseProgress.is_completed
is_completed(progress) ==
  IF progress.lesson_progress = <<>> THEN FALSE
  ELSE \A i \in 1..Len(progress.lesson_progress) :
         progress.lesson_progress[i].status = COMPLETED

\* LessonProgress.is_completed
lesson_is_completed(lp) ==
  IF lp.exercise_progress = <<>> THEN FALSE
  ELSE \A j \in 1..Len(lp.exercise_progress) :
         lp.exercise_progress[j].status = COMPLETED

\* CourseProgress.get_lesson_progress: index of the first entry with that id, 0 if none
get_lesson_progress(progress, lesson_id) ==
  LET hits == {i \in 1..Len(progress.lesson_progress) :
                 progress.lesson_progress[i].lesson_id = lesson_id}
  IN IF hits = {} THEN 0 ELSE CHOOSE i \in hits : \A k \in hits : i <= k

\* CourseProgress.mark_lesson_complete
mark_lesson_complete(progress, lesson_id) ==
  LET i == get_lesson_progress(progress, lesson_id) IN
  IF i = 0 THEN progress
  ELSE [progress EXCEPT !.lesson_progress[i].status = COMPLETED,
                        !.lesson_progress[i].completed_at = Some(Now)]

\* a pause that records the time and leaves the state
pause_StateKept(session) == [session EXCEPT !.paused_at = Some(Now)]

\* LearningSession.pause
pause(session) == [session EXCEPT !.state = PAUSED, !.paused_at = Some(Now)]

\* a resume that acts on paused sessions only
resume_IfPaused(session) ==
  IF session.state = PAUSED THEN [session EXCEPT !.state = ACTIVE] ELSE session

\* LearningSession.resume
resume(session) == [session EXCEPT !.state = ACTIVE]

\* LearningSession.complete
complete(session) == [session EXCEPT !.state = COMPLETED, !.completed_at = Some(Now)]

\* a new session that names no current lesson and no current exercise
create_new_session_NoCurrent(session_id, course) ==
  [session_id |-> session_id,
   course |-> course,
   progress |->
     CourseProgress(course.id,
       [i \in 1..Len(course.lessons) |->
          LessonProgress(course.lessons[i].id,
            [j \in 1..Len(course.lessons[i].exercises) |->
               ExerciseProgress(course.lessons[i].exercises[j].id)])]),
   state |-> ACTIVE,
   current_lesson_id |-> None,
   current_exercise_id |-> None,
   paused_at |-> None,
   completed_at |-> None]

\* SessionManager.create_new_session: the LearningSession it builds
create_new_session(session_id, course) ==
  LET lesson_progress ==
        [i \in 1..Len(course.lessons) |->
           LessonProgress(course.lessons[i].id,
             [j \in 1..Len(course.lessons[i].exercises) |->
                ExerciseProgress(course.lessons[i].exercises[j].id)])]
  IN [session_id |-> session_id,
      course |-> course,
      progress |-> CourseProgress(course.id, lesson_progress),
      state |-> ACTIVE,
      current_lesson_id |->
        IF course.lessons # <<>> THEN Some(course.lessons[1].id) ELSE None,
      current_exercise_id |->
        IF course.lessons # <<>> /\ course.lessons[1].exercises # <<>>
          THEN Some(course.lessons[1].exercises[1].id) ELSE None,
      paused_at |-> None,
      completed_at |-> None]

(***************************************************************************)
(* The session file: model_dump_json / model_validate_json                 *)
(* (session.py _save_progress, utils/serialization.py).  A JSON value is   *)
(* tagged with its JSON type; None is dumped as null, an enum member as    *)
(* its string value, a datetime as an ISO string.                          *)
(***************************************************************************)
JNull == [t |-> "null"]

JStr(v) == [t |-> "string", v |-> v]

JNum(v) == [t |-> "number", v |-> v]

JArr(v) == [t |-> "array", v |-> v]

JObj(v) == [t |-> "object", v |-> v]

DumpOpt(o) == IF IsNone(o) THEN JNull ELSE JStr(o.value)

\* a dump that loses the attempts counter
DumpExerciseProgress_NoAttempts(ep) ==
  JObj([exercise_id |-> JStr(ep.exercise_id),
        status |-> JStr(ep.status),
        attempts |-> JNum(0),
        user_answer |-> DumpOpt(ep.user_answer),
        completed_at |-> DumpOpt(ep.completed_at)])

DumpExerciseProgress(ep) ==
  JObj([exercise_id |-> JStr(ep.exercise_id),
        status |-> JStr(ep.status),
        attempts |-> JNum(ep.attempts),
        user_answer |-> DumpOpt(ep.user_answer),
        completed_at |-> DumpOpt(ep.completed_at)])

DumpLessonProgress(lp) ==
  JObj([lesson_id |-> JStr(lp.lesson_id),
        status |-> JStr(lp.status),
        exercise_progress |->
          JArr([j \in 1..Len(lp.exercise_progress) |->
                  DumpExerciseProgress(lp.exercise_progress[j])]),
        started_at |-> DumpOpt(lp.started_at),
        completed_at |-> DumpOpt(lp.completed_at)])

DumpCourseProgress(p) ==
  JObj([course_id |-> JStr(p.course_id),
        user_id |-> JStr(p.user_id),
        status |-> JStr(p.status),
        lesson_progress |->
          JArr([i \in 1..Len(p.lesson_progress) |->
                  DumpLessonProgress(p.lesson_progress[i])]),
        current_lesson_index |-> JNum(p.current_lesson_index),
        started_at |-> DumpOpt(p.started_at),
        completed_at |-> DumpOpt(p.completed_at)])

DumpExercise(ex) ==
  JObj([id |-> JStr(ex.id),
        expected_output |-> DumpOpt(ex.expected_output),
        hints |-> JArr([k \in 1..Len(ex.hints) |-> JStr(ex.hints[k])])])

DumpLesson(l) ==
  JObj([id |-> JStr(l.id),
        exercises |-> JArr([j \in 1..Len(l.exercises) |-> DumpExercise(l.exercises[j])])])

DumpCourse(c) ==
  JObj([id |-> JStr(c.id),
        lessons |-> JArr([i \in 1..Len(c.lessons) |-> DumpLesson(c.lessons[i])])])

\* LearningSession.model_dump_json
model_dump_json(session) ==
  JObj([session_id |-> JStr(session.session_id),
        course |-> DumpCourse(session.course),
        progress |-> DumpCourseProgress(session.progress),
        state |-> JStr(session.state),
        current_lesson_id |-> DumpOpt(session.current_lesson_id),
        current_exercise_id |-> DumpOpt(session.current_exercise_id),
        paused_at |-> DumpOpt(session.paused_at),
        completed_at |-> DumpOpt(session.completed_at)])

ParseOpt(j) == IF j.t = "null" THEN None ELSE Some(j.v)

ParseExerciseProgress(j) ==
  [exercise_id |-> j.v.exercise_id.v,
   status |-> j.v.status.v,
   attempts |-> j.v.attempts.v,
   user_answer |-> ParseOpt(j.v.user_answer),
   completed_at |-> ParseOpt(j.v.completed_at)]

ParseLessonProgress(j) ==
  [lesson_id |-> j.v.lesson_id.v,
   status |-> j.v.status.v,
   exercise_progress |->
     [k \in 1..Len(j.v.exercise_progress.v) |->
        ParseExerciseProgress(j.v.exercise_progress.v[k])],
   started_at |-> ParseOpt(j.v.started_at),
   completed_at |-> ParseOpt(j.v.completed_at)]

ParseCourseProgress(j) ==
  [course_id |-> j.v.course_id.v,
   user_id |-> j.v.user_id.v,
   status |-> j.v.status.v,
   lesson_progress |->
     [i \in 1..Len(j.v.lesson_progress.v) |->
        ParseLessonProgress(j.v.lesson_progress.v[i])],
   current_lesson_index |-> j.v.current_lesson_index.v,
   started_at |-> ParseOpt(j.v.started_at),
   completed_at |-> ParseOpt(j.v.completed_at)]

ParseExercise(j) ==
  [id |-> j.v.id.v,
   expected_output |-> ParseOpt(j.v.expected_output),
   hints |-> [k \in 1..Len(j.v.hints.v) |-> j.v.hints.v[k].v]]

ParseLesson(j) ==
  [id |-> j.v.id.v,
   exercises |-> [k \in 1..Len(j.v.exercises.v) |-> ParseExercise(j.v.exercises.v[k])]]

ParseCourse(j) ==
  [id |-> j.v.id.v,
   lessons |-> [i \in 1..Len(j.v.lessons.v) |-> ParseLesson(j.v.lessons.v[i])]]

\* the field constraints pydantic enforces on the values this model varies:
\* enum membership, attempts >= 0, current_lesson_index >= 0
ValidSessionDoc(j) ==
  /\ j.v.state.v \in SessionState
  /\ j.v.progress.v.status.v \in ProgressStatus
  /\ j.v.progress.v.current_lesson_index.v >= 0
  /\ \A i \in 1..Len(j.v.progress.v.lesson_progress.v) :
       LET lp == j.v.progress.v.lesson_progress.v[i] IN
       /\ lp.v.status.v \in ProgressStatus
       /\ \A k \in 1..Len(lp.v.exercise_progress.v) :
            /\ lp.v.exercise_progress.v[k].v.status.v \in ProgressStatus
            /\ lp.v.exercise_progress.v[k].v.attempts.v >= 0

\* LearningSession.model_validate_json on a document that passed validation
model_validate_json(j) ==
  [session_id |-> j.v.session_id.v,
   course |-> ParseCourse(j.v.course),
   progress |-> ParseCourseProgress(j.v.progress),
   state |-> j.v.state.v,
   current_lesson_id |-> ParseOpt(j.v.current_lesson_id),
   current_exercise_id |-> ParseOpt(j.v.current_exercise_id),
   paused_at |-> ParseOpt(j.v.paused_at),
   completed_at |-> ParseOpt(j.v.completed_at)]

\* what a path holds: nothing, a complete JSON document, or a truncated text
Absent == [kind |-> "absent"]

Partial == [kind |-> "partial"]

JsonFile(doc) == [kind |-> "json", doc |-> doc]

\* load_from_file(LearningSession, path)
load_from_file(file) ==
  IF file.kind = "absent" THEN [error |-> "FileNotFoundError"]
  ELSE IF file.kind = "partial" THEN [error |-> "ValidationError"]
  ELSE IF ~ValidSessionDoc(file.doc) THEN [error |-> "ValidationError"]
  ELSE [error |-> "none", session |-> model_validate_json(file.doc)]

(***************************************************************************)
(* SessionManager (core/session.py)                                        *)
(***************************************************************************)
VARIABLES
  session,      \* SessionManager.session, the in-memory LearningSession
  disk,         \* <data_dir>/sessions/<session_id>.json, per session id (in
                \* GenSpec the files of the course cache, per cache key)
  pc,           \* where run() is: idle (not called), lessons / exercises (loop
                \* heads), prompt_answer, prompt_continue, returned; failed
                \* after a load_session that raised; crashed after the process
                \* died
  lesson_idx,   \* _run_lessons: lesson_idx (0-based, as in the code)
  ex_idx,       \* _run_lesson_exercises: ex_idx (0-based)
  hint_count,   \* SessionManager._hint_count
  has_llm,      \* whether the validator holds an LLM client
  event,        \* history: the operation of the last step and its input
  exact_run,    \* history: this run began on a new session and every answer so far
                \* was the exercise's expected_output, every continue accepted
  first_prompt, \* history: no input has been read yet in this run
  quit_at,      \* history: the exercise at whose prompt quit was last typed, or
                \* the lesson after which continue was last declined
  last_saved,   \* history: the LearningSession given to the last completed write
  script,       \* history: how many inputs of GitScript have been typed, these
                \* being all the inputs since the session was created
  sim,          \* the CommandSimulator of the manager
  call          \* the last call of a validator or simulator method made from
                \* outside a session, with its arguments and its result

vars == <<session, disk, pc, lesson_idx, ex_idx, hint_count, has_llm,
          event, exact_run, first_prompt, quit_at, last_saved, script, sim, call>>

\* the answer sequence wrong, git init, skip
GitScript == <<S_wrong, S_git_init, S_skip>>

\* the value of script once the inputs have left the sequence
OffScript == Len(GitScript) + 1

ScriptNext(n, raw) ==
  IF n < Len(GitScript) /\ raw = GitScript[n + 1] THEN n + 1 ELSE OffScript

\* the id of the session that is created, and an id no session has
SessionIds == {"s1", "s2"}

Event(op, exact, cmd, special, l, e, before, result) ==
  [op |-> op, exact |-> exact, cmd |-> cmd, special |-> special,
   l |-> l, e |-> e, before |-> before, result |-> result, source |-> "none",
   hint |-> None]

PlainEvent(op, result) == Event(op, FALSE, <<>>, FALSE, 0, 0, 0, result)

\* no method has been called from outside a session
NoCall == [fn |-> "none", calls |-> 0]

NoQuit == [some |-> FALSE, declined |-> FALSE, l |-> 0, e |-> 0, attempts |-> 0]

TheLessons == session.course.lessons

TheLesson == TheLessons[lesson_idx + 1]

TheExercise == TheLesson.exercises[ex_idx + 1]

ExProgress(s, l, e) == s.progress.lesson_progress[l + 1].exercise_progress[e + 1]

\* positions (lesson, exercise) of the exercises whose status is completed or failed
Resolved(s) ==
  {le \in UNION {{<<l, e>> : e \in 0..(Len(s.course.lessons[l + 1].exercises) - 1)} :
                 l \in 0..(Len(s.course.lessons) - 1)} :
     ExProgress(s, le[1], le[2]).status \in {COMPLETED, FAILED}}

\* the loop variables of _run_lessons, _run_lesson_exercises and _run_exercise;
\* they hold 0 while no run() is on the stack
Locals(l, e, h) == lesson_idx' = l /\ ex_idx' = e /\ hint_count' = h

\* a save that writes nothing
_save_progress_Skipped(d, s) == d

\* _save_progress: the file of the session is replaced by the dump of the session
\* (the write is taken to succeed)
_save_progress(d, s) == [d EXCEPT ![s.session_id] = JsonFile(model_dump_json(s))]

Init ==
  /\ \E cfg \in Configs :
       /\ session = create_new_session("s1", cfg.course)
       /\ has_llm = cfg.has_llm
  /\ disk = [id \in SessionIds |-> Absent]
  /\ pc = "idle"
  /\ lesson_idx = 0
  /\ ex_idx = 0
  /\ hint_count = 0
  /\ event = PlainEvent("create", "none")
  /\ exact_run = FALSE
  /\ first_prompt = FALSE
  /\ quit_at = NoQuit
  /\ last_saved = None
  /\ script = 0
  /\ sim = CommandSimulator
  /\ call = NoCall

\* run(), lines 70-79, and the entry of _run_lessons, lines 102-105
Run ==
  /\ pc = "idle"
  /\ session' = [session EXCEPT
                   !.state = ACTIVE,
                   !.progress.status = IN_PROGRESS,
                   !.progress.started_at =
                      IF IsNone(@) THEN Some(Now) ELSE @]
  /\ lesson_idx' = session.progress.current_lesson_index
  /\ pc' = "lessons"
  /\ event' = PlainEvent("run", "none")
  /\ exact_run' = (event.op = "create")
  /\ first_prompt' = TRUE
  /\ UNCHANGED <<disk, ex_idx, hint_count, has_llm, quit_at, last_saved, script>>
  /\ UNCHANGED <<sim, call>>

\* a run() whose epilogue marks the progress of a completed course completed
RunEpilogue_MarksProgress(s) ==
  IF is_completed(s.progress)
    THEN [complete(s) EXCEPT !.progress.status = COMPLETED,
                             !.progress.completed_at = Some(Now)]
    ELSE pause(s)

\* a run() whose epilogue pauses whatever the progress is
RunEpilogue_Pauses(s) == pause(s)

\* run(), lines 91-98: the course-complete check before the final save
RunEpilogue(s) == IF is_completed(s.progress) THEN complete(s) ELSE pause(s)

\* _run_lessons, lines 106-113: a lesson already completed is passed over
LessonSkip ==
  /\ pc = "lessons"
  /\ lesson_idx < Len(TheLessons)
  /\ session.progress.lesson_progress[lesson_idx + 1].status = COMPLETED
  /\ session' = [session EXCEPT !.progress.current_lesson_index = lesson_idx]
  /\ lesson_idx' = lesson_idx + 1
  /\ event' = PlainEvent("lesson_skip", "none")
  /\ UNCHANGED <<disk, pc, ex_idx, hint_count, has_llm, exact_run,
                 first_prompt, quit_at, last_saved, script>>
  /\ UNCHANGED <<sim, call>>

\* _run_lessons, lines 106-122: a lesson is entered
LessonStart ==
  /\ pc = "lessons"
  /\ lesson_idx < Len(TheLessons)
  /\ session.progress.lesson_progress[lesson_idx + 1].status # COMPLETED
  /\ session' = [session EXCEPT
                   !.progress.current_lesson_index = lesson_idx,
                   !.progress.lesson_progress[lesson_idx + 1].status = IN_PROGRESS,
                   !.progress.lesson_progress[lesson_idx + 1].started_at =
                      IF IsNone(@) THEN Some(Now) ELSE @,
                   !.current_lesson_id = Some(TheLesson.id)]
  /\ ex_idx' = 0
  /\ pc' = "exercises"
  /\ event' = PlainEvent("lesson_start", "none")
  /\ UNCHANGED <<disk, lesson_idx, hint_count, has_llm, exact_run,
                 first_prompt, quit_at, last_saved, script>>
  /\ UNCHANGED <<sim, call>>

\* the lesson loop is exhausted: _run_lessons returns, run() lines 91-98
RunFinish ==
  /\ pc = "lessons"
  /\ lesson_idx >= Len(TheLessons)
  /\ session' = RunEpilogue(session)
  /\ disk' = _save_progress(disk, session')
  /\ last_saved' = Some(session')
  /\ pc' = "returned"
  /\ event' = PlainEvent("finish", "none")
  /\ quit_at' = NoQuit
  /\ Locals(0, 0, 0)
  /\ UNCHANGED <<has_llm, exact_run, first_prompt, script>>
  /\ UNCHANGED <<sim, call>>

\* _run_lesson_exercises, lines 155-163: a completed or failed exercise is passed over
ExerciseSkip ==
  /\ pc = "exercises"
  /\ ex_idx < Len(TheLesson.exercises)
  /\ ExProgress(session, lesson_idx, ex_idx).status \in {COMPLETED, FAILED}
  /\ ex_idx' = ex_idx + 1
  /\ event' = PlainEvent("exercise_skip", "none")
  /\ UNCHANGED <<session, disk, pc, lesson_idx, hint_count, has_llm,
                 exact_run, first_prompt, quit_at, last_saved, script>>
  /\ UNCHANGED <<sim, call>>

\* an exercise loop that presents every exercise, whatever its status
ExerciseStart_Always ==
  /\ pc = "exercises"
  /\ ex_idx < Len(TheLesson.exercises)
  /\ session' = [session EXCEPT
                   !.current_exercise_id = Some(TheExercise.id),
                   !.progress.lesson_progress[lesson_idx + 1]
                      .exercise_progress[ex_idx + 1].status = IN_PROGRESS]
  /\ hint_count' = 0
  /\ pc' = "prompt_answer"
  /\ event' = PlainEvent("exercise_start", "none")
  /\ UNCHANGED <<disk, lesson_idx, ex_idx, has_llm, exact_run,
                 first_prompt, quit_at, last_saved, script>>
  /\ sim' = reset(sim)
  /\ UNCHANGED call

\* _run_lesson_exercises, lines 165-171, and _run_exercise, lines 190-191
ExerciseStart ==
  /\ pc = "exercises"
  /\ ex_idx < Len(TheLesson.exercises)
  /\ ExProgress(session, lesson_idx, ex_idx).status \notin {COMPLETED, FAILED}
  /\ session' = [session EXCEPT
                   !.current_exercise_id = Some(TheExercise.id),
                   !.progress.lesson_progress[lesson_idx + 1]
                      .exercise_progress[ex_idx + 1].status = IN_PROGRESS]
  /\ hint_count' = 0
  /\ pc' = "prompt_answer"
  /\ event' = PlainEvent("exercise_start", "none")
  /\ UNCHANGED <<disk, lesson_idx, ex_idx, has_llm, exact_run,
                 first_prompt, quit_at, last_saved, script>>
  /\ sim' = reset(sim)
  /\ UNCHANGED call

\* a lesson that is marked complete only when every exercise of it was completed
CompleteLesson_IfAllPassed(s, l) ==
  IF lesson_is_completed(s.progress.lesson_progress[l + 1])
    THEN [s EXCEPT
            !.progress.lesson_progress[l + 1].status = COMPLETED,
            !.progress.lesson_progress[l + 1].completed_at = Some(Now)]
    ELSE s

\* _run_lessons, lines 130-133: the lesson at index l is marked complete
CompleteLesson(s, l) ==
  LET s1 == [s EXCEPT
               !.progress.lesson_progress[l + 1].status = COMPLETED,
               !.progress.lesson_progress[l + 1].completed_at = Some(Now)]
  IN [s1 EXCEPT !.progress = mark_lesson_complete(s1.progress, s.course.lessons[l + 1].id)]

\* a lesson loop that goes on to the next lesson without asking
LessonDone_NeverAsks ==
  /\ pc = "exercises"
  /\ ex_idx >= Len(TheLesson.exercises)
  /\ session' = CompleteLesson(session, lesson_idx)
  /\ pc' = "lessons"
  /\ lesson_idx' = lesson_idx + 1
  /\ event' = PlainEvent("lesson_done", "none")
  /\ UNCHANGED <<disk, ex_idx, hint_count, has_llm, exact_run,
                 first_prompt, quit_at, last_saved, script>>
  /\ UNCHANGED <<sim, call>>

\* _run_lesson_exercises returns True; _run_lessons, lines 130-137
LessonDone ==
  /\ pc = "exercises"
  /\ ex_idx >= Len(TheLesson.exercises)
  /\ session' = CompleteLesson(session, lesson_idx)
  /\ IF lesson_idx < Len(TheLessons) - 1
       THEN pc' = "prompt_continue" /\ lesson_idx' = lesson_idx
       ELSE pc' = "lessons" /\ lesson_idx' = lesson_idx + 1
  /\ event' = PlainEvent("lesson_done", "none")
  /\ UNCHANGED <<disk, ex_idx, hint_count, has_llm, exact_run,
                 first_prompt, quit_at, last_saved, script>>
  /\ UNCHANGED <<sim, call>>

\* _run_exercise, lines 194-198: the answer after strip() and the removal of one
\* pair of surrounding backticks
NormalizeAnswer(raw) ==
  LET a == Strip(raw) IN
  IF Len(a) > 1 /\ a[1] = BT /\ a[Len(a)] = BT
    THEN Strip(SubSeq(a, 2, Len(a) - 1))
    ELSE a

\* answer_stripped
CommandOf(raw) == Lower(NormalizeAnswer(raw))

IsSpecial(raw) == CommandOf(raw) \in SPECIAL_COMMANDS

\* what the learner may type at the prompt of an exercise
ControlInputs ==
  {S_hint, S_skip, S_quit, S_exit, S_help, S_status, S_Quit_padded, S_bt_skip}

RawInputs(exercise) ==
  ControlInputs \cup {S_wrong, S_empty}
    \cup (IF IsNone(exercise.expected_output) THEN {}
          ELSE {exercise.expected_output.value})

IsExact(exercise, raw) ==
  ~IsNone(exercise.expected_output) /\ raw = exercise.expected_output.value

AnswerEvent(raw, result) ==
  Event("answer", IsExact(TheExercise, raw), CommandOf(raw), IsSpecial(raw),
        lesson_idx, ex_idx,
        ExProgress(session, lesson_idx, ex_idx).attempts, result)

\* display_hint(hint, self._hint_count): the event of a step that displays a
\* hint holds the hint; the number it is displayed under is the hint_count the
\* step leaves
HintEvent(answer_event, hint) == [answer_event EXCEPT !.hint = Some(hint)]

\* the event of a submission: the status the validator gave and the stage of
\* validate that produced it
SubmitEvent(raw, validation) ==
  LET submitted == [AnswerEvent(raw, validation.status)
                      EXCEPT !.source = validation.source]
  IN IF validation.status # CORRECT /\ validation.hints # <<>>
       THEN HintEvent(submitted, validation.hints[1])
       ELSE submitted

\* what every step that reads an answer does to the history variables
AnswerHistory(raw) ==
  /\ exact_run' = (exact_run /\ IsExact(TheExercise, raw))
  /\ first_prompt' = FALSE
  /\ script' = ScriptNext(script, raw)

\* _run_exercise lines 201-206, _handle_special_command lines 254-261, and the
\* return through _run_lesson_exercises and _run_lessons to run() lines 91-98
AnswerQuit(raw) ==
  /\ pc = "prompt_answer"
  /\ IsSpecial(raw)
  /\ CommandOf(raw) \in {S_quit, S_exit}
  /\ session' = RunEpilogue(pause(session))
  /\ disk' = _save_progress(_save_progress(disk, pause(session)), session')
  /\ last_saved' = Some(session')
  /\ pc' = "returned"
  /\ event' = AnswerEvent(raw, "quit")
  /\ quit_at' = [some |-> TRUE, declined |-> FALSE, l |-> lesson_idx, e |-> ex_idx,
                 attempts |-> ExProgress(session, lesson_idx, ex_idx).attempts]
  /\ AnswerHistory(raw)
  /\ Locals(0, 0, 0)
  /\ UNCHANGED has_llm
  /\ UNCHANGED <<sim, call>>

\* a skip that goes on to the next exercise and records nothing
AnswerSkip_LeavesOpen(raw) ==
  /\ pc = "prompt_answer"
  /\ IsSpecial(raw)
  /\ CommandOf(raw) = S_skip
  /\ disk' = _save_progress(disk, session)
  /\ last_saved' = Some(session)
  /\ pc' = "exercises"
  /\ ex_idx' = ex_idx + 1
  /\ event' = AnswerEvent(raw, "skip")
  /\ quit_at' = NoQuit
  /\ AnswerHistory(raw)
  /\ hint_count' = 0
  /\ UNCHANGED <<session, lesson_idx, has_llm>>
  /\ UNCHANGED <<sim, call>>

\* a skip that records the exercise as completed
AnswerSkip_Completes(raw) ==
  /\ pc = "prompt_answer"
  /\ IsSpecial(raw)
  /\ CommandOf(raw) = S_skip
  /\ session' = [session EXCEPT
                   !.progress.lesson_progress[lesson_idx + 1]
                      .exercise_progress[ex_idx + 1].status = COMPLETED]
  /\ disk' = _save_progress(disk, session')
  /\ last_saved' = Some(session')
  /\ pc' = "exercises"
  /\ ex_idx' = ex_idx + 1
  /\ event' = AnswerEvent(raw, "skip")
  /\ quit_at' = NoQuit
  /\ AnswerHistory(raw)
  /\ hint_count' = 0
  /\ UNCHANGED <<lesson_idx, has_llm>>
  /\ UNCHANGED <<sim, call>>

\* _run_exercise lines 201-208, _handle_special_command lines 263-267
AnswerSkip(raw) ==
  /\ pc = "prompt_answer"
  /\ IsSpecial(raw)
  /\ CommandOf(raw) = S_skip
  /\ session' = [session EXCEPT
                   !.progress.lesson_progress[lesson_idx + 1]
                      .exercise_progress[ex_idx + 1].status = FAILED]
  /\ disk' = _save_progress(disk, session')
  /\ last_saved' = Some(session')
  /\ pc' = "exercises"
  /\ ex_idx' = ex_idx + 1
  /\ event' = AnswerEvent(raw, "skip")
  /\ quit_at' = NoQuit
  /\ AnswerHistory(raw)
  /\ hint_count' = 0
  /\ UNCHANGED <<lesson_idx, has_llm>>
  /\ UNCHANGED <<sim, call>>

\* _handle_special_command lines 269-277: the hint generated is displayed
AnswerHint(raw, reply) ==
  /\ pc = "prompt_answer"
  /\ IsSpecial(raw)
  /\ CommandOf(raw) = S_hint
  /\ hint_count < MaxHints
  /\ hint_count' = hint_count + 1
  /\ LET hint == generate_hint(TheExercise, hint_count + 1, has_llm, reply)
     IN event' = HintEvent(AnswerEvent(raw, hint), hint)
  /\ quit_at' = NoQuit
  /\ AnswerHistory(raw)
  /\ UNCHANGED <<session, disk, pc, lesson_idx, ex_idx, has_llm, last_saved>>
  /\ UNCHANGED <<sim, call>>

\* a help and status that end the loop of the exercise
AnswerInfo_Advances(raw) ==
  /\ pc = "prompt_answer"
  /\ IsSpecial(raw)
  /\ CommandOf(raw) \notin {S_quit, S_exit, S_skip, S_hint}
  /\ pc' = "exercises"
  /\ ex_idx' = ex_idx + 1
  /\ event' = AnswerEvent(raw, "shown")
  /\ quit_at' = NoQuit
  /\ AnswerHistory(raw)
  /\ UNCHANGED <<session, disk, lesson_idx, hint_count, has_llm, last_saved>>
  /\ UNCHANGED <<sim, call>>

\* a help and status that count as a hint
AnswerInfo_CountsHint(raw) ==
  /\ pc = "prompt_answer"
  /\ IsSpecial(raw)
  /\ CommandOf(raw) \notin {S_quit, S_exit, S_skip, S_hint}
  /\ hint_count' = hint_count + 1
  /\ event' = AnswerEvent(raw, "shown")
  /\ quit_at' = NoQuit
  /\ AnswerHistory(raw)
  /\ UNCHANGED <<session, disk, pc, lesson_idx, ex_idx, has_llm, last_saved>>
  /\ UNCHANGED <<sim, call>>

\* _handle_special_command lines 279-287: help, status, and the final return
AnswerInfo(raw) ==
  /\ pc = "prompt_answer"
  /\ IsSpecial(raw)
  /\ CommandOf(raw) \notin {S_quit, S_exit, S_skip, S_hint}
  /\ event' = AnswerEvent(raw, "shown")
  /\ quit_at' = NoQuit
  /\ AnswerHistory(raw)
  /\ UNCHANGED <<session, disk, pc, lesson_idx, ex_idx, hint_count, has_llm,
                 last_saved>>
  /\ UNCHANGED <<sim, call>>

\* what the client does at the call simulate makes, in a step where it does
\* `reply` at the call of validate: within one step it raises at both calls or at
\* neither
SimReplyOf(reply) == [raises |-> reply.raises, success_yes |-> reply.status = "correct"]

\* _run_exercise lines 212-236: an answer that is no special command
AnswerSubmit(raw, reply) ==
  /\ pc = "prompt_answer"
  /\ ~IsSpecial(raw)
  /\ ExProgress(session, lesson_idx, ex_idx).attempts < MaxAttempts
  /\ LET answer == NormalizeAnswer(raw)
         s1 == [session EXCEPT
                  !.progress.lesson_progress[lesson_idx + 1]
                     .exercise_progress[ex_idx + 1].attempts = @ + 1,
                  !.progress.lesson_progress[lesson_idx + 1]
                     .exercise_progress[ex_idx + 1].user_answer = Some(answer)]
         validation == validate(TheExercise, answer, has_llm, reply)
     IN IF validation.status = CORRECT
          THEN /\ session' =
                    [s1 EXCEPT
                       !.progress.lesson_progress[lesson_idx + 1]
                          .exercise_progress[ex_idx + 1].status = COMPLETED,
                       !.progress.lesson_progress[lesson_idx + 1]
                          .exercise_progress[ex_idx + 1].completed_at = Some(Now)]
               /\ disk' = _save_progress(disk, session')
               /\ last_saved' = Some(session')
               /\ hint_count' = 0
               /\ pc' = "exercises"
               /\ ex_idx' = ex_idx + 1
               /\ event' = SubmitEvent(raw, validation)
          ELSE /\ session' = s1
               /\ hint_count' = hint_count + 1
               /\ event' = SubmitEvent(raw, validation)
               /\ UNCHANGED <<disk, last_saved, pc, ex_idx>>
  /\ quit_at' = NoQuit
  /\ AnswerHistory(raw)
  /\ UNCHANGED <<lesson_idx, has_llm>>
  /\ sim' = simulate(sim, NormalizeAnswer(raw), has_llm, SimReplyOf(reply)).sim
  /\ UNCHANGED call

\* _run_lessons lines 137-138: the learner accepts the continue prompt
Continue ==
  /\ pc = "prompt_continue"
  /\ pc' = "lessons"
  /\ lesson_idx' = lesson_idx + 1
  /\ event' = PlainEvent("continue", "none")
  /\ UNCHANGED <<session, disk, ex_idx, hint_count, has_llm, exact_run,
                 first_prompt, quit_at, last_saved, script>>
  /\ UNCHANGED <<sim, call>>

\* _run_lessons lines 137-141: the learner declines; run() lines 91-98
Decline ==
  /\ pc = "prompt_continue"
  /\ session' = RunEpilogue(pause(session))
  /\ disk' = _save_progress(_save_progress(disk, pause(session)), session')
  /\ last_saved' = Some(session')
  /\ pc' = "returned"
  /\ event' = PlainEvent("decline", "none")
  /\ exact_run' = FALSE
  /\ quit_at' = [NoQuit EXCEPT !.declined = TRUE, !.l = lesson_idx]
  /\ Locals(0, 0, 0)
  /\ UNCHANGED <<has_llm, first_prompt>>
  /\ script' = OffScript
  /\ UNCHANGED <<sim, call>>

\* run() lines 83-89: KeyboardInterrupt raised inside _run_lessons, at a prompt or
\* at a loop head
Interrupt ==
  /\ pc \in {"lessons", "exercises", "prompt_answer", "prompt_continue"}
  /\ session' = pause(session)
  /\ disk' = _save_progress(disk, session')
  /\ last_saved' = Some(session')
  /\ pc' = "returned"
  /\ event' = PlainEvent("interrupt", pc)
  /\ exact_run' = FALSE
  /\ quit_at' = NoQuit
  /\ Locals(0, 0, 0)
  /\ UNCHANGED <<has_llm, first_prompt>>
  /\ script' = OffScript
  /\ UNCHANGED <<sim, call>>

\* SessionManager.load_session(session_id), lines 399-412: a new manager on the
\* session read from the file; an error leaves no manager to run
LoadSession(id) ==
  /\ pc \in {"idle", "returned", "failed", "crashed"}
  /\ LET r == load_from_file(disk[id]) IN
     IF r.error = "none"
       THEN /\ session' = resume(r.session)
            /\ pc' = "idle"
            /\ Locals(0, 0, 0)
            /\ event' = PlainEvent("load", id)
            /\ script' = OffScript
       ELSE /\ pc' = "failed"
            /\ event' = PlainEvent(r.error, id)
            /\ UNCHANGED <<session, lesson_idx, ex_idx, hint_count, script>>
  /\ UNCHANGED <<disk, has_llm, exact_run, first_prompt, quit_at, last_saved>>
  /\ \E simulator \in {sim, CommandSimulator} : sim' = simulator
  /\ UNCHANGED call

\* the inputs offered at the current prompt
PromptInputs == IF pc = "prompt_answer" THEN RawInputs(TheExercise) ELSE {}

\* the outcomes of the calls to llm_client.generate a step may make; no call is
\* made without a client
Replies ==
  IF has_llm THEN LLMReplies
  ELSE {[raises |-> TRUE, status |-> "none", score |-> 5, hint |-> None]}

Next ==
  \/ Run
  \/ LessonSkip
  \/ LessonStart
  \/ RunFinish
  \/ ExerciseSkip
  \/ ExerciseStart
  \/ LessonDone
  \/ \E raw \in PromptInputs : AnswerQuit(raw)
  \/ \E raw \in PromptInputs : AnswerSkip(raw)
  \/ \E raw \in PromptInputs, reply \in Replies : AnswerHint(raw, reply)
  \/ \E raw \in PromptInputs : AnswerInfo(raw)
  \/ \E raw \in PromptInputs, reply \in Replies : AnswerSubmit(raw, reply)
  \/ Continue
  \/ Decline
  \/ Interrupt
  \/ \E id \in SessionIds : LoadSession(id)

Spec == Init /\ [][Next]_vars

(***************************************************************************)
(* ShellSpec: the session of Spec, with the same actions, over a course of *)
(* shell exercises; the learner types commands that change the simulator.  *)
(***************************************************************************)
S_mkdir == <<"m", "k", "d", "i", "r", " ", "d", "/", "e">>
S_cd == <<"c", "d", " ", "d">>

\* two lessons of shell exercises
CourseShell ==
  Course("shell",
    << Lesson("l0", << Exercise("e0_0", Some(S_mkdir), <<"h1">>),
                       Exercise("e0_1", Some(S_cd), <<>>) >>),
       Lesson("l1", << Exercise("e1_0", Some(S_mkdir), <<>>) >>) >>)

ShellInit ==
  /\ session = create_new_session("s1", CourseShell)
  /\ has_llm = FALSE
  /\ disk = [id \in SessionIds |-> Absent]
  /\ pc = "idle"
  /\ lesson_idx = 0
  /\ ex_idx = 0
  /\ hint_count = 0
  /\ event = PlainEvent("create", "none")
  /\ exact_run = FALSE
  /\ first_prompt = FALSE
  /\ quit_at = NoQuit
  /\ last_saved = None
  /\ script = 0
  /\ sim = CommandSimulator
  /\ call = NoCall

\* what the learner may type at a prompt of the shell course
ShellInputs ==
  IF pc = "prompt_answer"
    THEN {S_quit, S_skip, S_hint, S_help, S_status, S_mkdir, S_cd}
    ELSE {}

ShellNext ==
  \/ Run
  \/ LessonSkip
  \/ LessonStart
  \/ RunFinish
  \/ ExerciseSkip
  \/ ExerciseStart
  \/ LessonDone
  \/ \E raw \in ShellInputs : AnswerQuit(raw)
  \/ \E raw \in ShellInputs : AnswerSkip(raw)
  \/ \E raw \in ShellInputs, reply \in Replies : AnswerHint(raw, reply)
  \/ \E raw \in ShellInputs : AnswerInfo(raw)
  \/ \E raw \in ShellInputs, reply \in Replies : AnswerSubmit(raw, reply)
  \/ Continue
  \/ Decline
  \/ Interrupt
  \/ \E id \in SessionIds : LoadSession(id)

ShellSpec == ShellInit /\ [][ShellNext]_vars

\* the steps run() takes by itself, between two prompts
ProgramStep ==
  LessonSkip \/ LessonStart \/ RunFinish \/ ExerciseSkip \/ ExerciseStart \/ LessonDone

\* LiveSpec: the session of ShellSpec with a learner who stays at the prompt of no
\* exercise for ever (the loop of an exercise is left by a CORRECT answer, skip
\* or quit, or by an interrupt) and who answers every continue prompt; run()
\* takes the steps between prompts
LiveSpec ==
  /\ ShellInit
  /\ [][ShellNext]_vars
  /\ WF_vars(ProgramStep)
  /\ []<>(pc # "prompt_answer")
  /\ []<>(pc # "prompt_continue")

(***************************************************************************)
(* CrashSpec: the session of ShellSpec, the learner typing quit, skip and   *)
(* answers, in a process that may die while run() waits at an answer       *)
(* prompt.  What the process held in memory is lost; the session file      *)
(* stays.  call holds the exercises that the process that died last had    *)
(* resolved in memory.                                                     *)
(***************************************************************************)
\* the process dies at an answer prompt; only load_session, in a new process,
\* can follow
CrashAtPrompt ==
  /\ pc = "prompt_answer"
  /\ pc' = "crashed"
  /\ call' = [fn |-> "crash", calls |-> 0, resolved |-> Resolved(session)]
  /\ event' = PlainEvent("crash", "none")
  /\ exact_run' = FALSE
  /\ quit_at' = NoQuit
  /\ script' = OffScript
  /\ Locals(0, 0, 0)
  /\ UNCHANGED <<session, disk, has_llm, first_prompt, last_saved, sim>>

\* what the learner types at a prompt: quit, skip, and answers
CrashInputs ==
  IF pc = "prompt_answer" THEN {S_quit, S_skip, S_mkdir, S_cd} ELSE {}

CrashNext ==
  \/ Run
  \/ LessonSkip
  \/ LessonStart
  \/ RunFinish
  \/ ExerciseSkip
  \/ ExerciseStart
  \/ LessonDone
  \/ \E raw \in CrashInputs : AnswerQuit(raw)
  \/ \E raw \in CrashInputs : AnswerSkip(raw)
  \/ \E raw \in CrashInputs, reply \in Replies : AnswerSubmit(raw, reply)
  \/ Continue
  \/ Decline
  \/ Interrupt
  \/ \E id \in SessionIds : LoadSession(id)
  \/ CrashAtPrompt

CrashSpec == ShellInit /\ [][CrashNext]_vars

(***************************************************************************)
(* ValSpec: the methods of an ExerciseValidator called directly, on        *)
(* exercises, answers and replies of the client drawn from bounded sets.   *)
(* No session runs: the variables of the session keep their first value.   *)
(***************************************************************************)
SessionVars ==
  <<session, disk, pc, lesson_idx, ex_idx, hint_count, event, exact_run,
    first_prompt, quit_at, last_saved, script>>

\* no SessionManager exists
NoSession ==
  /\ session = create_new_session("s1", CourseEmpty)
  /\ disk = [id \in SessionIds |-> Absent]
  /\ pc = "no_session"
  /\ lesson_idx = 0
  /\ ex_idx = 0
  /\ hint_count = 0
  /\ event = PlainEvent("none", "none")
  /\ exact_run = FALSE
  /\ first_prompt = FALSE
  /\ quit_at = NoQuit
  /\ last_saved = None
  /\ script = 0

\* the largest attempt_number passed to generate_hint
MaxAttemptNumber == 3

\* exercises by expected_output: null, empty, blank, a command, a command with
\* spaces around it, a command in capitals
ValExercises ==
  { Exercise("v0", None, <<"h1">>),
    Exercise("v1", Some(<<>>), <<"h1">>),
    Exercise("v2", Some(<<" ">>), <<>>),
    Exercise("v3", Some(S_git_init), <<"h1", "h2">>),
    Exercise("v4", Some(<<" ", "l", "s", " ">>), <<>>),
    Exercise("v5", Some(<<"G", "i", "t", " ", "I", "n", "i", "t">>), <<"h1">>) }

\* answers: none, blank, the command, in capitals, with a doubled space, with
\* more after it, a part of it, spaces around it, something else; and the
\* expected_output itself
ValAnswers(exercise) ==
  { <<>>, <<" ">>, S_git_init, <<"G", "I", "T", " ", "I", "N", "I", "T">>, <<"g", "i", "t", " ", " ", "i", "n", "i", "t">>, <<"g", "i", "t", " ", "i", "n", "i", "t", " ", ".">>, <<"g", "i", "t">>,
    <<" ", "g", "i", "t", " ", "i", "n", "i", "t", " ">>, S_ls, S_wrong }
    \cup (IF IsNone(exercise.expected_output) THEN {}
          ELSE {exercise.expected_output.value})

ValInit ==
  /\ NoSession
  /\ has_llm \in BOOLEAN
  /\ sim = CommandSimulator
  /\ call = NoCall

\* validator.validate(exercise, answer)
CallValidate ==
  \E exercise \in ValExercises :
    \E answer \in ValAnswers(exercise), reply \in Replies :
      LET result == validate(exercise, answer, has_llm, reply) IN
      /\ call' = [fn |-> "validate", exercise |-> exercise, answer |-> answer,
                  raises |-> result.llm_called /\ reply.raises, result |-> result]
      /\ UNCHANGED <<SessionVars, has_llm, sim>>

\* validator.generate_hint(exercise, answer, attempt_number)
CallGenerateHint ==
  \E exercise \in ValExercises, attempt_number \in 1..MaxAttemptNumber, reply \in Replies :
    /\ call' = [fn |-> "generate_hint", exercise |-> exercise,
                attempt_number |-> attempt_number,
                raises |-> reply.raises,
                result |-> generate_hint(exercise, attempt_number, has_llm, reply)]
    /\ UNCHANGED <<SessionVars, has_llm, sim>>

ValNext ==
  \/ CallValidate
  \/ CallGenerateHint

ValSpec == ValInit /\ [][ValNext]_vars

(***************************************************************************)
(* SimSpec: simulate and reset called directly on one CommandSimulator,    *)
(* with or without client, on commands drawn from a bounded set.           *)
(***************************************************************************)
\* the largest number of simulate calls between two resets
MaxSimCalls == 3

\* commands whose quote is not closed
OpenQuoteCommands ==
  { <<"e", "c", "h", "o", " ", "'", "a">>,
    <<"e", "c", "h", "o", " ", "\"", "a">> }

\* for every branch of simulate and of its handlers, a command that takes it
SimCommands ==
  { <<>>,
    <<" ">>,
    <<"e", "c", "h", "o", " ", "h", "i">>,
    <<"l", "s">>,
    <<"l", "s", " ", "d">>,
    <<"l", "s", " ", "f", ".", "p", "y">>,
    <<"c", "a", "t">>,
    <<"c", "a", "t", " ", "f", ".", "p", "y">>,
    <<"m", "k", "d", "i", "r">>,
    <<"m", "k", "d", "i", "r", " ", "d", "/", "e">>,
    <<"t", "o", "u", "c", "h">>,
    <<"t", "o", "u", "c", "h", " ", "f", ".", "p", "y">>,
    <<"c", "d">>,
    <<"c", "d", " ", "d">>,
    <<"c", "d", " ", ".", ".">>,
    <<"c", "d", " ", "f", ".", "p", "y">>,
    <<"p", "w", "d">>,
    <<"p", "y", "t", "h", "o", "n">>,
    <<"p", "y", "t", "h", "o", "n", " ", "-", "c">>,
    <<"p", "y", "t", "h", "o", "n", " ", "-", "c", " ", "'", "f", "r", "o", "m", " ", "x", "'">>,
    <<"p", "y", "t", "h", "o", "n", " ", "-", "c", " ", "'", "i", "m", "p", "o", "r", "t", " ", "'">>,
    <<"p", "y", "t", "h", "o", "n", " ", "f", ".", "p", "y">>,
    <<"p", "y", "t", "h", "o", "n", " ", "-", "V">>,
    <<"p", "i", "p">>,
    <<"p", "i", "p", " ", "i", "n", "s", "t", "a", "l", "l">>,
    <<"p", "i", "p", " ", "i", "n", "s", "t", "a", "l", "l", " ", "x">>,
    <<"p", "i", "p", " ", "l", "i", "s", "t">>,
    <<"p", "i", "p", " ", "x">>,
    <<"g", "i", "t">>,
    <<"g", "i", "t", " ", "i", "n", "i", "t">>,
    <<"g", "i", "t", " ", "s", "t", "a", "t", "u", "s">>,
    <<"g", "i", "t", " ", "c", "l", "o", "n", "e">>,
    <<"g", "i", "t", " ", "c", "l", "o", "n", "e", " ", "r">>,
    <<"g", "i", "t", " ", "l", "o", "g">>,
    <<"d", "o", "c", "k", "e", "r">>,
    <<"d", "o", "c", "k", "e", "r", " ", "r", "u", "n", " ", "i">>,
    <<"d", "o", "c", "k", "e", "r", " ", "p", "s">>,
    <<"d", "o", "c", "k", "e", "r", " ", "b", "u", "i", "l", "d">>,
    <<"d", "o", "c", "k", "e", "r", " ", "x">>,
    <<"k", "u", "b", "e", "c", "t", "l">>,
    <<"k", "u", "b", "e", "c", "t", "l", " ", "g", "e", "t">>,
    <<"k", "u", "b", "e", "c", "t", "l", " ", "a", "p", "p", "l", "y">>,
    <<"k", "u", "b", "e", "c", "t", "l", " ", "x">>,
    <<"i", "m", "p", "o", "r", "t", " ", "o", "s">>,
    <<"f", "r", "o", "m", " ", "o", "s", " ", "i", "m", "p", "o", "r", "t", " ", "p", "a", "t", "h">>,
    <<"x", " ", "=", " ", "1">>,
    <<"p", "r", "i", "n", "t", "(", "'", "a", "'", ")">>,
    <<"p", "r", "i", "n", "t", "(", "x", ")">>,
    <<"d", "e", "f", " ", "f", "(">>,
    <<"c", "l", "a", "s", "s", " ", "A">>,
    <<"w", "r", "o", "n", "g">>,
    <<"'", "'">>,
    <<"a", "\\">> }
  \cup OpenQuoteCommands

SimInit ==
  /\ NoSession
  /\ has_llm \in BOOLEAN
  /\ sim = CommandSimulator
  /\ call = NoCall

\* simulator.simulate(command): needs_llm tells whether the command is one that
\* simulate hands to the client when there is one
CallSimulate ==
  /\ call.calls < MaxSimCalls
  /\ \E command \in SimCommands, reply \in SimReplies :
       \E r \in {simulate(sim, command, has_llm, reply)} :
         /\ sim' = r.sim
         /\ call' = [fn |-> "simulate", command |-> command,
                     needs_llm |-> simulate(sim, command, TRUE, reply).llm_called,
                     raises |-> r.llm_called /\ reply.raises,
                     raised |-> r.raised, success |-> r.success,
                     exit_code |-> r.exit_code, llm_called |-> r.llm_called,
                     output |-> r.output,
                     calls |-> call.calls + 1]
  /\ UNCHANGED <<SessionVars, has_llm>>

\* simulator.reset()
CallReset ==
  /\ sim' = reset(sim)
  /\ call' = [fn |-> "reset", calls |-> 0]
  /\ UNCHANGED <<SessionVars, has_llm>>

SimNext ==
  \/ CallSimulate
  \/ CallReset

SimSpec == SimInit /\ [][SimNext]_vars

(***************************************************************************)
(* SaveSpec: _save_progress taken step by step, on a session that changes  *)
(* between saves.  Each disk operation of a save succeeds or raises        *)
(* OSError; the process may die between any two steps; a reader may read   *)
(* the session file at any point.  The fields of call hold the position    *)
(* of the save in progress: step, the temp file tmp, the session file as   *)
(* it was when the save began (before), the file the save is to leave      *)
(* (new), and the exception the save has raised into its caller (raised).  *)
(***************************************************************************)
\* the largest number of saves of one manager
MaxSaves == 2

\* the outcomes of one disk operation: it succeeds or raises OSError
DiskOutcomes == BOOLEAN

\* the text of the session that a save in progress is writing
NewFile == JsonFile(model_dump_json(session))

\* no save is in progress
SaveIdle == IF call.fn = "none" THEN TRUE ELSE call.step \in {"returned", "raised"}

SaveVars ==
  <<pc, lesson_idx, ex_idx, hint_count, event, exact_run, first_prompt, quit_at,
    last_saved, script, has_llm, sim>>

SaveInit ==
  /\ session = create_new_session("s1", CourseGit)
  /\ disk = [id \in SessionIds |-> Absent]
  /\ pc = "idle"
  /\ lesson_idx = 0
  /\ ex_idx = 0
  /\ hint_count = 0
  /\ event = PlainEvent("create", "none")
  /\ exact_run = FALSE
  /\ first_prompt = FALSE
  /\ quit_at = NoQuit
  /\ last_saved = None
  /\ script = 0
  /\ has_llm = FALSE
  /\ sim = CommandSimulator
  /\ call = NoCall

\* between two saves the manager changes the session: pause() before the save of
\* quit, resume() at a load
SaveEdit ==
  /\ SaveIdle
  /\ \E s \in {pause(session), resume(session)} :
       /\ s # session
       /\ session' = s
  /\ UNCHANGED <<disk, call, SaveVars>>

\* _save_progress is entered, line 291
SaveBegin ==
  /\ SaveIdle
  /\ call.calls < MaxSaves
  /\ call' = [fn |-> "_save_progress", step |-> "mkdir", tmp |-> Absent,
              before |-> disk[session.session_id], new |-> NewFile,
              raised |-> "none",
              read |-> "none", calls |-> call.calls + 1]
  /\ UNCHANGED <<session, disk, SaveVars>>

\* line 292: sessions_dir.mkdir(parents=True, exist_ok=True), outside the try
SaveMkdir(ok) ==
  /\ call.fn = "_save_progress"
  /\ call.step = "mkdir"
  /\ call' = IF ok THEN [call EXCEPT !.step = "mkstemp"]
             ELSE [call EXCEPT !.step = "raised", !.raised = "OSError"]
  /\ UNCHANGED <<session, disk, SaveVars>>

\* line 298: tempfile.mkstemp creates an empty temp file in the sessions directory
SaveMkstemp(ok) ==
  /\ call.fn = "_save_progress"
  /\ call.step = "mkstemp"
  /\ call' = IF ok THEN [call EXCEPT !.step = "write", !.tmp = Partial]
             ELSE [call EXCEPT !.step = "fallback"]
  /\ UNCHANGED <<session, disk, SaveVars>>

\* lines 299-300: the dump is written to the temp file; a write that raises
\* leaves the temp file with a part of the text
SaveWrite(ok) ==
  /\ call.fn = "_save_progress"
  /\ call.step = "write"
  /\ call' = IF ok THEN [call EXCEPT !.step = "replace", !.tmp = NewFile]
             ELSE [call EXCEPT !.step = "fallback"]
  /\ UNCHANGED <<session, disk, SaveVars>>

\* line 301: Path(tmp_path).replace(target), one rename
SaveReplace(ok) ==
  /\ call.fn = "_save_progress"
  /\ call.step = "replace"
  /\ IF ok
       THEN /\ disk' = [disk EXCEPT ![session.session_id] = call.tmp]
            /\ call' = [call EXCEPT !.step = "returned", !.tmp = Absent]
       ELSE /\ call' = [call EXCEPT !.step = "fallback"]
            /\ UNCHANGED disk
  /\ UNCHANGED <<session, SaveVars>>

\* lines 302-304 and save_to_file, lines 41-47: path.write_text opens the session
\* file for writing, which empties it; nothing catches an OSError here
SaveFallbackOpen(ok) ==
  /\ call.fn = "_save_progress"
  /\ call.step = "fallback"
  /\ IF ok
       THEN /\ disk' = [disk EXCEPT ![session.session_id] = Partial]
            /\ call' = [call EXCEPT !.step = "fallback_write"]
       ELSE /\ call' = [call EXCEPT !.step = "raised", !.raised = "OSError"]
            /\ UNCHANGED disk
  /\ UNCHANGED <<session, SaveVars>>

\* save_to_file, line 47: write_text writes the text into the open session file
SaveFallbackWrite(ok) ==
  /\ call.fn = "_save_progress"
  /\ call.step = "fallback_write"
  /\ IF ok
       THEN /\ disk' = [disk EXCEPT ![session.session_id] = NewFile]
            /\ call' = [call EXCEPT !.step = "returned"]
       ELSE /\ call' = [call EXCEPT !.step = "raised", !.raised = "OSError"]
            /\ UNCHANGED disk
  /\ UNCHANGED <<session, SaveVars>>

\* the process dies between two steps of a save: the files stay as they are
SaveCrash ==
  /\ call.fn = "_save_progress"
  /\ call.step \notin {"returned", "raised", "crashed"}
  /\ call' = [call EXCEPT !.step = "crashed"]
  /\ UNCHANGED <<session, disk, SaveVars>>

\* a reader (load_session, find_saved_sessions) reads the session file
SaveRead ==
  /\ call.fn = "_save_progress"
  /\ call' = [call EXCEPT !.read = load_from_file(disk[session.session_id]).error]
  /\ UNCHANGED <<session, disk, SaveVars>>

SaveNext ==
  \/ SaveEdit
  \/ SaveBegin
  \/ \E ok \in DiskOutcomes : SaveMkdir(ok)
  \/ \E ok \in DiskOutcomes : SaveMkstemp(ok)
  \/ \E ok \in DiskOutcomes : SaveWrite(ok)
  \/ \E ok \in DiskOutcomes : SaveReplace(ok)
  \/ \E ok \in DiskOutcomes : SaveFallbackOpen(ok)
  \/ \E ok \in DiskOutcomes : SaveFallbackWrite(ok)
  \/ SaveCrash
  \/ SaveRead

SaveSpec == SaveInit /\ [][SaveNext]_vars

(***************************************************************************)
(* VfsSpec: the methods of one VirtualFileSystem called directly, on paths *)
(* and contents drawn from bounded sets; cd changes the current directory. *)
(* call holds the last method called, its path, normalize_path of the path *)
(* as the method computed it (norm), normalize_path of that (again), and   *)
(* what the method returned.                                               *)
(***************************************************************************)
\* the largest number of calls that change the file system
MaxOps == 2

\* paths: the root, the empty path, a name, the name written another way, an
\* absolute path, the parent, a nested path, a path with empty, . and .. parts
VfsPaths ==
  { <<"/">>,
    <<>>,
    <<"a">>,
    <<".", "/", "a", "/">>,
    <<"/", "t", "m", "p">>,
    <<".", ".">>,
    <<"a", "/", "b", "/", "c">>,
    <<".", ".", "/", "u", "s", "e", "r", "/", "/", "a", "/", ".", "/", "b">> }

VfsContents == {<<"1">>, <<"2">>}

VfsInit ==
  /\ NoSession
  /\ has_llm = FALSE
  /\ sim = CommandSimulator
  /\ call = NoCall

\* the record of a call of a method on path, in the file system fs
VfsCall(fn, fs, path, content, result, calls) ==
  [fn |-> fn, path |-> path, content |-> content,
   norm |-> normalize_path(fs, path),
   again |-> normalize_path(fs, normalize_path(fs, path)),
   before |-> fs, result |-> result, calls |-> calls]

\* filesystem.write_file(path, content)
CallWriteFile ==
  /\ call.calls < MaxOps
  /\ \E path \in VfsPaths, content \in VfsContents :
       /\ sim' = [sim EXCEPT !.filesystem = write_file(@, path, content)]
       /\ call' = VfsCall("write_file", sim.filesystem, path, content, "none",
                          call.calls + 1)
  /\ UNCHANGED <<SessionVars, has_llm>>

\* filesystem.touch(path)
CallTouch ==
  /\ call.calls < MaxOps
  /\ \E path \in VfsPaths :
       /\ sim' = [sim EXCEPT !.filesystem = touch(@, path)]
       /\ call' = VfsCall("touch", sim.filesystem, path, <<>>, "none", call.calls + 1)
  /\ UNCHANGED <<SessionVars, has_llm>>

\* filesystem.create_directory(path)
CallCreateDirectory ==
  /\ call.calls < MaxOps
  /\ \E path \in VfsPaths :
       /\ sim' = [sim EXCEPT !.filesystem = create_directory(@, path)]
       /\ call' = VfsCall("create_directory", sim.filesystem, path, <<>>, "none",
                          call.calls + 1)
  /\ UNCHANGED <<SessionVars, has_llm>>

\* the cd command: normalize_path, is_directory, and the assignment of current_dir
CallCd ==
  /\ call.calls < MaxOps
  /\ \E path \in VfsPaths :
       \E r \in {_simulate_cd(sim, <<path>>)} :
         /\ sim' = r.sim
         /\ call' = VfsCall("cd", sim.filesystem, path, <<>>, r.success, call.calls + 1)
  /\ UNCHANGED <<SessionVars, has_llm>>

\* filesystem.read_file(path)
CallReadFile ==
  /\ \E path \in VfsPaths :
       call' = VfsCall("read_file", sim.filesystem, path, <<>>,
                       read_file(sim.filesystem, path), call.calls)
  /\ UNCHANGED <<SessionVars, has_llm, sim>>

VfsNext ==
  \/ CallWriteFile
  \/ CallTouch
  \/ CallCreateDirectory
  \/ CallCd
  \/ CallReadFile

VfsSpec == VfsInit /\ [][VfsNext]_vars

(***************************************************************************)
(* RetrySpec: BaseLLMClient._make_request_with_retry taken one request at  *)
(* a time.  Each call of request_func returns a response or raises an      *)
(* exception of one of the classes below.  The fields of call hold the     *)
(* position of the call in progress: step, the loop variable attempt, the  *)
(* outcomes of the requests made so far (requests), the delays slept       *)
(* (slept), what the call returned (result) and what it raised (raised).   *)
(***************************************************************************)
\* BaseLLMClient.__init__: self.max_retries
max_retries == 3

\* BaseLLMClient.__init__: self.base_delay
base_delay == 1

\* what request_func returns when it returns
Response == "response"

\* the classes of the exceptions request_func raises, each with the classes it
\* is an instance of: the rate-limit and timeout errors of the two SDKs, the
\* builtin TimeoutError, the API errors of the two SDKs, and a ValueError
ExceptionClasses ==
  [RateLimitError        |-> {"RateLimitError", "APIError", "Exception"},
   OpenAIRateLimitError  |-> {"OpenAIRateLimitError", "OpenAIAPIError", "Exception"},
   APITimeoutError       |-> {"APITimeoutError", "APIError", "Exception"},
   TimeoutError          |-> {"TimeoutError", "OSError", "Exception"},
   OpenAIAPITimeoutError |-> {"OpenAIAPITimeoutError", "OpenAIAPIError", "Exception"},
   APIError              |-> {"APIError", "Exception"},
   OpenAIAPIError        |-> {"OpenAIAPIError", "Exception"},
   ValueError            |-> {"ValueError", "Exception"}]

\* the outcomes of one call of request_func
RequestOutcomes == {Response} \cup DOMAIN ExceptionClasses

\* isinstance(e, one of classes)
IsInstance(e, classes) == ExceptionClasses[e] \cap classes # {}

\* 2 ** n
Pow2(n) == IF n = 0 THEN 1 ELSE IF n = 1 THEN 2 ELSE IF n = 2 THEN 4 ELSE 8

\* a retry loop that sleeps and goes on after every exception
RetryStep_RetriesAll(attempt, outcome) ==
  IF outcome = Response
    THEN [step |-> "returned", result |-> Response, raised |-> "none", delay |-> 0]
  ELSE IF attempt < max_retries - 1
    THEN [step |-> "sleep", result |-> "none", raised |-> "none",
          delay |-> base_delay * Pow2(attempt)]
  ELSE [step |-> "raised", result |-> "none", raised |-> "RuntimeError", delay |-> 0]

\* _make_request_with_retry, one turn of the for loop: the request has had
\* outcome; the first except clause that matches the exception handles it
RetryStep(attempt, outcome) ==
  IF outcome = Response
    THEN [step |-> "returned", result |-> Response, raised |-> "none", delay |-> 0]
  ELSE IF \/ IsInstance(outcome, {"RateLimitError", "OpenAIRateLimitError"})
          \/ IsInstance(outcome, {"APITimeoutError", "TimeoutError"})
    THEN IF attempt < max_retries - 1
           THEN [step |-> "sleep", result |-> "none", raised |-> "none",
                 delay |-> base_delay * Pow2(attempt)]
           ELSE [step |-> "raised", result |-> "none", raised |-> "RuntimeError",
                 delay |-> 0]
  ELSE [step |-> "raised", result |-> "none", raised |-> "RuntimeError", delay |-> 0]

RetryInit ==
  /\ NoSession
  /\ has_llm = TRUE
  /\ sim = CommandSimulator
  /\ call = NoCall

RetryOver == IF call.fn = "none" THEN TRUE ELSE call.step \in {"returned", "raised"}

\* _make_request_with_retry(request_func): the for loop is entered with attempt
\* 0; were range(max_retries) empty the raise after the loop would be reached
RetryBegin ==
  /\ RetryOver
  /\ call' = [fn |-> "_make_request_with_retry",
              step |-> IF 0 < max_retries THEN "request" ELSE "raised",
              attempt |-> 0, requests |-> <<>>, slept |-> <<>>,
              result |-> "none",
              raised |-> IF 0 < max_retries THEN "none" ELSE "RuntimeError",
              calls |-> 0]
  /\ UNCHANGED <<SessionVars, has_llm, sim>>

\* request_func() is called and returns or raises
RetryRequest(outcome) ==
  /\ call.fn = "_make_request_with_retry"
  /\ call.step = "request"
  /\ \E r \in {RetryStep(call.attempt, outcome)} :
       call' = [call EXCEPT !.requests = Append(@, outcome),
                            !.step = r.step,
                            !.result = r.result,
                            !.raised = r.raised,
                            !.slept = IF r.step = "sleep" THEN Append(@, r.delay) ELSE @]
  /\ UNCHANGED <<SessionVars, has_llm, sim>>

\* time.sleep(delay) returns; continue: the loop takes the next attempt
RetrySleep ==
  /\ call.fn = "_make_request_with_retry"
  /\ call.step = "sleep"
  /\ call' = [call EXCEPT !.attempt = @ + 1,
                          !.step = IF call.attempt + 1 < max_retries
                                     THEN "request" ELSE "raised",
                          !.raised = IF call.attempt + 1 < max_retries
                                       THEN "none" ELSE "RuntimeError"]
  /\ UNCHANGED <<SessionVars, has_llm, sim>>

RetryNext ==
  \/ RetryBegin
  \/ \E outcome \in RequestOutcomes : RetryRequest(outcome)
  \/ RetrySleep

\* request_func and time.sleep return: a call in progress takes its next step
RetrySpec ==
  /\ RetryInit
  /\ [][RetryNext]_vars
  /\ WF_vars(\E outcome \in RequestOutcomes : RetryRequest(outcome))
  /\ WF_vars(RetrySleep)

(***************************************************************************)
(* GenSpec: CourseGenerator.generate_course called directly, on topics,    *)
(* lesson counts and use_cache flags drawn from bounded sets, the LLM      *)
(* returning course data, returning data that is no course, or raising.    *)
(* Between calls a day may pass and a cache file may be damaged.  disk     *)
(* holds the files of cache_dir, per cache key, each with its age in days  *)
(* (now less its mtime); every operation on a cache file is taken to       *)
(* succeed.  A generated course has the id uuid4 gives it and as many      *)
(* lessons as were asked for.  call holds the last call: its arguments,    *)
(* the cache entry of its key as the call found it (before), whether the   *)
(* call read and wrote the cache, the number of LLM requests it made       *)
(* (llm), and what it returned (result) or raised.                         *)
(***************************************************************************)
\* the largest number of courses the LLM generates
MaxGenerations == 2

\* CourseGenerator.cache_ttl_days of the generator of the model
cache_ttl_days == 1

\* the largest age of a cache file in the model, in days
MaxAge == cache_ttl_days + 1

S_Git == <<"G", "i", "t">>
S_sp_git_sp == <<" ", "g", "i", "t", " ">>
S_blank == <<" ">>

GenTopics == {S_Git, S_sp_git_sp, S_blank, S_empty}

GenDifficulties == {"beginner"}

GenLessonCounts == {0, 1, 2}

\* what llm_client.generate_json does: returns the data of a course, returns
\* data that Course.model_validate rejects, or raises RuntimeError
LLMOutcomes == {"course", "malformed", "RuntimeError"}

\* the ids uuid4 gives, in the order it gives them
Uuids == <<"uuid1", "uuid2", "uuid3", "uuid4">>

\* the field constraint pydantic enforces on the value this model varies: the
\* id of a course is a string
ValidCourseDoc(j) == j.v.id.t = "string"

\* a cache file: what it holds and its age
CacheEntry(file, age) == [file |-> file, age |-> age]

\* load_from_file(Course, cache_file)
load_course_from_file(file) ==
  IF file.kind = "absent" THEN [error |-> "FileNotFoundError"]
  ELSE IF file.kind = "partial" THEN [error |-> "JSONDecodeError"]
  ELSE IF ~ValidCourseDoc(file.doc) THEN [error |-> "ValidationError"]
  ELSE [error |-> "none", course |-> ParseCourse(file.doc)]

\* _generate_cache_key: the digest of the three values, a digest being taken
\* to differ when the values do
_generate_cache_key(topic, difficulty, num_lessons) ==
  [topic |-> Strip(Lower(topic)), difficulty |-> difficulty,
   num_lessons |-> num_lessons]

\* the parameter checks of generate_course pass
ValidParameters(topic, num_lessons) ==
  /\ topic # <<>>
  /\ Strip(topic) # <<>>
  /\ ~(num_lessons < 1 \/ num_lessons > 20)

CacheKeys ==
  {_generate_cache_key(topic, difficulty, num_lessons) :
     <<topic, difficulty, num_lessons>> \in
       {tdn \in GenTopics \X GenDifficulties \X GenLessonCounts :
          ValidParameters(tdn[1], tdn[3])}}

\* a cache load that takes no account of the age of the file
_load_from_cache_IgnoresTTL(cache, cache_key) ==
  IF cache[cache_key] = Absent THEN [course |-> None, cache |-> cache]
  ELSE LET loaded == load_course_from_file(cache[cache_key].file) IN
         IF loaded.error = "none"
           THEN [course |-> Some(loaded.course), cache |-> cache]
           ELSE [course |-> None, cache |-> [cache EXCEPT ![cache_key] = Absent]]

\* _load_from_cache: the course of the file and the cache as the load leaves it
_load_from_cache(cache, cache_key) ==
  IF cache[cache_key] = Absent THEN [course |-> None, cache |-> cache]
  ELSE IF cache[cache_key].age > cache_ttl_days
    THEN [course |-> None, cache |-> [cache EXCEPT ![cache_key] = Absent]]
  ELSE LET loaded == load_course_from_file(cache[cache_key].file) IN
         IF loaded.error = "none"
           THEN [course |-> Some(loaded.course), cache |-> cache]
           ELSE [course |-> None, cache |-> [cache EXCEPT ![cache_key] = Absent]]

\* _save_to_cache: the file is written now
_save_to_cache(cache, cache_key, course) ==
  [cache EXCEPT ![cache_key] = CacheEntry(JsonFile(DumpCourse(course)), 0)]

\* _parse_course_data on the data the LLM returned for the parameters, uuid
\* being the id that uuid4 gives
_parse_course_data(outcome, topic, difficulty, num_lessons, uuid) ==
  IF outcome = "course"
    THEN [error |-> "none",
          course |-> Course(Uuids[uuid],
                            [i \in 1..num_lessons |->
                               Lesson(<<"lesson", i>>, <<>>)])]
    ELSE [error |-> "ValueError"]

GenResult(raised, result, cache, read, written, llm) ==
  [raised |-> raised, result |-> result, cache |-> cache, read |-> read,
   written |-> written, llm |-> llm]

\* generate_course(topic, difficulty, num_lessons, use_cache)
generate_course(cache, topic, difficulty, num_lessons, use_cache, outcome, uuid) ==
  IF ~ValidParameters(topic, num_lessons)
    THEN GenResult("ValueError", None, cache, FALSE, FALSE, 0)
  ELSE
    LET cache_key == _generate_cache_key(topic, difficulty, num_lessons)
        cached == IF use_cache THEN _load_from_cache(cache, cache_key)
                  ELSE [course |-> None, cache |-> cache]
        parsed == _parse_course_data(outcome, topic, difficulty, num_lessons, uuid)
    IN IF ~IsNone(cached.course)
         THEN GenResult("none", cached.course, cached.cache, TRUE, FALSE, 0)
       ELSE IF outcome = "RuntimeError"
         THEN GenResult("RuntimeError", None, cached.cache, use_cache, FALSE, 1)
       ELSE IF parsed.error # "none"
         THEN GenResult(parsed.error, None, cached.cache, use_cache, FALSE, 1)
       ELSE GenResult("none", Some(parsed.course),
                      IF use_cache
                        THEN _save_to_cache(cached.cache, cache_key, parsed.course)
                        ELSE cached.cache,
                      use_cache, use_cache, 1)

GenInit ==
  /\ session = create_new_session("s1", CourseEmpty)
  /\ disk = [cache_key \in CacheKeys |-> Absent]
  /\ pc = "no_session"
  /\ lesson_idx = 0
  /\ ex_idx = 0
  /\ hint_count = 0
  /\ event = PlainEvent("none", "none")
  /\ exact_run = FALSE
  /\ first_prompt = FALSE
  /\ quit_at = NoQuit
  /\ last_saved = None
  /\ script = OffScript
  /\ has_llm = TRUE
  /\ sim = CommandSimulator
  /\ call = NoCall

GenVars ==
  <<session, pc, lesson_idx, ex_idx, hint_count, event, exact_run, first_prompt,
    quit_at, last_saved, script, has_llm, sim>>

\* generator.generate_course(topic, difficulty, num_lessons, use_cache)
CallGenerateCourse ==
  /\ \E topic \in GenTopics, difficulty \in GenDifficulties,
        num_lessons \in GenLessonCounts, use_cache \in BOOLEAN,
        outcome \in LLMOutcomes :
       \E r \in {generate_course(disk, topic, difficulty, num_lessons, use_cache,
                                 outcome, call.calls + 1)} :
         /\ r.llm = 1 => call.calls < MaxGenerations
         /\ disk' = r.cache
         /\ call' = [fn |-> "generate_course", topic |-> topic,
                     difficulty |-> difficulty, num_lessons |-> num_lessons,
                     use_cache |-> use_cache,
                     valid |-> ValidParameters(topic, num_lessons),
                     before |-> IF ValidParameters(topic, num_lessons)
                                  THEN disk[_generate_cache_key(topic, difficulty,
                                                                num_lessons)]
                                  ELSE Absent,
                     raised |-> r.raised, result |-> r.result, read |-> r.read,
                     written |-> r.written, llm |-> r.llm,
                     calls |-> call.calls + r.llm]
  /\ UNCHANGED GenVars

\* a day passes: a cache file is a day older
CacheAges ==
  /\ \E cache_key \in CacheKeys :
       /\ disk[cache_key] # Absent
       /\ disk[cache_key].age < MaxAge
       /\ disk' = [disk EXCEPT ![cache_key].age = @ + 1]
  /\ UNCHANGED <<GenVars, call>>

\* a cache file is damaged: it is cut short, or a value in it is changed
CacheCorrupted ==
  /\ \E cache_key \in CacheKeys :
       /\ disk[cache_key] # Absent
       /\ disk[cache_key].file.kind = "json"
       /\ ValidCourseDoc(disk[cache_key].file.doc)
       /\ \E file \in {Partial,
                       JsonFile([disk[cache_key].file.doc EXCEPT !.v.id = JNull])} :
            disk' = [disk EXCEPT ![cache_key].file = file]
  /\ UNCHANGED <<GenVars, call>>

GenNext ==
  \/ CallGenerateCourse
  \/ CacheAges
  \/ CacheCorrupted

GenSpec == GenInit /\ [][GenNext]_vars

(***************************************************************************)
(* Properties                                                              *)
(***************************************************************************)
AllExercises(course) ==
  UNION {{course.lessons[l].exercises[e] : e \in 1..Len(course.lessons[l].exercises)} :
         l \in 1..Len(course.lessons)}

\* every exercise of the course has an expected_output
HasExpected(course) ==
  \A ex \in AllExercises(course) : ~IsNone(ex.expected_output)

\* an expected output that is not blank, is no command word and is not wrapped in
\* backticks
PlainExpected(expected) ==
  /\ ~IsNone(expected)
  /\ Strip(expected.value) # <<>>
  /\ ~IsSpecial(expected.value)
  /\ NormalizeAnswer(expected.value) = Strip(expected.value)

PlainCourse(course) ==
  /\ Len(course.lessons) >= 1
  /\ \A ex \in AllExercises(course) : PlainExpected(ex.expected_output)

RunCompleted ==
  session.state = COMPLETED /\ is_completed(session.progress)

\* C1, as stated: when a run() on a new session in which every answer was the
\* exercise's expected_output and every continue prompt was accepted returns, the
\* session is completed and CourseProgress.is_completed() holds, for every course
\* whose exercises all have an expected_output.
C1_AsStated ==
  (pc = "returned" /\ exact_run /\ HasExpected(session.course)) => RunCompleted

C1_ExactRunReturnsCompleted ==
  (pc = "returned" /\ exact_run /\ PlainCourse(session.course)) => RunCompleted

C1_ExactAnswerCompletes ==
  (/\ pc = "prompt_answer"
   /\ event'.op = "answer"
   /\ event'.exact
   /\ PlainExpected(TheExercise.expected_output))
  => /\ ExProgress(session', lesson_idx, ex_idx).status = COMPLETED
     /\ pc' = "exercises"

\* C1, amended: for a course with at least one lesson whose expected outputs are
\* all non-blank, not command words and not wrapped in backticks, every answer
\* that equals the expected_output completes its exercise, and a run() on a new
\* session made of such answers and accepted continue prompts returns with the
\* session completed and CourseProgress.is_completed() true.
C1_ExactRun ==
  /\ [](C1_ExactRunReturnsCompleted)
  /\ [][C1_ExactAnswerCompletes]_vars

\* a run of exact answers over two lessons has returned, completed
C1_Witness ==
  /\ pc = "returned"
  /\ exact_run
  /\ session.course = CourseTwo
  /\ event.op = "finish"
  /\ RunCompleted

\* the file of the session holds the session: its text parses to exactly the
\* session in memory
FileHoldsSession ==
  /\ disk[session.session_id] = JsonFile(model_dump_json(session))
  /\ load_from_file(disk[session.session_id]).error = "none"
  /\ load_from_file(disk[session.session_id]).session = session

\* the last step read quit or exit at an exercise prompt and run() has returned
ReturnedByQuit ==
  pc = "returned" /\ event.op = "answer" /\ event.cmd \in {S_quit, S_exit}

\* C2: when run() has returned after quit or exit was typed at an exercise prompt,
\* the attempts counter of that exercise is what it was before the command, the
\* session is paused and the session file holds the whole session.
C2_QuitPausesAndSaves ==
  ReturnedByQuit =>
    /\ ExProgress(session, event.l, event.e).attempts = event.before
    /\ session.state = PAUSED
    /\ FileHoldsSession

\* quit typed in the second lesson at an exercise already attempted
C2_Witness ==
  /\ ReturnedByQuit
  /\ event.cmd = S_quit
  /\ event.l = 1
  /\ event.before >= 1
  /\ session.state = PAUSED

\* the six command words, as the claim lists them
CommandWords == {S_hint, S_skip, S_quit, S_exit, S_help, S_status}

\* C3: every input read at an exercise prompt adds 1 to the attempts counter of
\* the exercise when it is no command word (the empty input included) and adds
\* nothing when it is hint, skip, quit, exit, help or status.
C3_AttemptsStep ==
  (pc = "prompt_answer" /\ event'.op = "answer") =>
    /\ event'.before = ExProgress(session, lesson_idx, ex_idx).attempts
    /\ ExProgress(session', lesson_idx, ex_idx).attempts =
         event'.before + (IF event'.cmd \in CommandWords THEN 0 ELSE 1)

C3_AttemptsCount == [][C3_AttemptsStep]_vars

\* an empty input was counted as the second attempt
C3_Witness ==
  /\ pc = "prompt_answer"
  /\ event.op = "answer"
  /\ event.cmd = S_empty
  /\ event.before = 1
  /\ ExProgress(session, lesson_idx, ex_idx).attempts = 2

LessonStatus(s, l) == s.progress.lesson_progress[l + 1].status

InRun == pc \in {"lessons", "exercises", "prompt_answer", "prompt_continue"}

\* every lesson the loop of _run_lessons has left behind is completed
C4_LessonsBehindCompleted ==
  /\ InRun =>
       \A l \in 0..(Len(TheLessons) - 1) :
         (l < lesson_idx \/ (l = lesson_idx /\ pc = "prompt_continue"))
           => LessonStatus(session, l) = COMPLETED
  /\ (pc = "returned" /\ event.op = "finish") =>
       \A l \in 0..(Len(TheLessons) - 1) : LessonStatus(session, l) = COMPLETED

C4_SkipFails ==
  (pc = "prompt_answer" /\ event'.op = "answer" /\ event'.cmd = S_skip) =>
    /\ ExProgress(session', lesson_idx, ex_idx).status = FAILED
    /\ pc' = "exercises"
    /\ ex_idx' = ex_idx + 1

C4_ExercisesDone ==
  (pc = "exercises" /\ ex_idx >= Len(TheLesson.exercises) /\ pc' # "returned") =>
    LessonStatus(session', lesson_idx) = COMPLETED

\* C4: skip typed at an exercise prompt sets the status of the exercise to failed,
\* and a lesson whose exercises have all been answered correctly or skipped is
\* marked completed when the exercise loop ends.
C4_SkipKeepsLessonCompletable ==
  /\ [](C4_LessonsBehindCompleted)
  /\ [][C4_SkipFails /\ C4_ExercisesDone]_vars

\* the first exercise was skipped, the second answered, the lesson is completed
C4_Witness ==
  /\ pc = "returned"
  /\ event.op = "finish"
  /\ session.course = CourseGit
  /\ ExProgress(session, 0, 0).status = FAILED
  /\ ExProgress(session, 0, 1).status = COMPLETED
  /\ LessonStatus(session, 0) = COMPLETED

\* run() has returned after exactly the inputs wrong, git init, skip on the course
\* of one lesson with the exercises "git init" and "git status", without LLM client
GitScriptReturned ==
  /\ pc = "returned"
  /\ script = Len(GitScript)
  /\ session.course = CourseGit
  /\ ~has_llm

GitScriptProgress ==
  /\ ExProgress(session, 0, 0).status = COMPLETED
  /\ ExProgress(session, 0, 0).attempts = 2
  /\ ExProgress(session, 0, 1).status = FAILED
  /\ LessonStatus(session, 0) = COMPLETED

\* C5, as stated: the sequence wrong, git init, skip ends with exercise 1
\* completed after 2 attempts, exercise 2 failed, the lesson completed and the
\* session paused.
C5_AsStated ==
  GitScriptReturned => (GitScriptProgress /\ session.state = PAUSED)

\* C5, amended: the sequence wrong, git init, skip ends with exercise 1 completed
\* after 2 attempts, exercise 2 failed, the lesson completed and the session
\* completed.
C5_GitScriptEndsCompleted ==
  GitScriptReturned => (GitScriptProgress /\ session.state = COMPLETED)

C5_Witness ==
  /\ GitScriptReturned
  /\ event.op = "finish"
  /\ ExProgress(session, 0, 0).user_answer = Some(S_git_init)
  /\ session.state = COMPLETED

\* C6: whenever run() has returned, after the last lesson, a quit, a declined
\* continue prompt or a keyboard interrupt, the session file holds exactly the
\* session in memory.
C6_ReturnedIsSaved ==
  pc = "returned" => FileHoldsSession

\* an interrupt at the continue prompt, after an exercise was answered
C6_Witness ==
  /\ pc = "returned"
  /\ event.op = "interrupt"
  /\ event.result = "prompt_continue"
  /\ session.course = CourseTwo
  /\ ExProgress(session, 0, 0).attempts >= 1
  /\ FileHoldsSession

\* the first prompt of a run() that follows a run() left by quit
C7_FirstPromptAfterQuit ==
  (pc = "prompt_answer" /\ first_prompt /\ quit_at.some) =>
    /\ lesson_idx = quit_at.l
    /\ ex_idx = quit_at.e
    /\ ExProgress(session, lesson_idx, ex_idx).attempts = quit_at.attempts

\* the exercise at a prompt is in progress, so neither completed nor failed
C7_PromptedIsOpen ==
  pc = "prompt_answer" =>
    ExProgress(session, lesson_idx, ex_idx).status = IN_PROGRESS

\* an exercise that is completed or failed stays so, across quit and load_session
C7_ResolvedStays ==
  \A le \in Resolved(session) :
    ExProgress(session', le[1], le[2]).status = ExProgress(session, le[1], le[2]).status

\* C7: after quit at the prompt of exercise e, load_session and run(), the first
\* prompt is for e with the attempts counter it had at the quit, and no exercise
\* completed or failed at the quit is prompted again.
C7_ResumeAtQuitPoint ==
  /\ [](C7_FirstPromptAfterQuit /\ C7_PromptedIsOpen)
  /\ [][C7_ResolvedStays]_vars

\* resumed at the second exercise, attempted before the quit, the first resolved
C7_Witness ==
  /\ pc = "prompt_answer"
  /\ first_prompt
  /\ quit_at.some
  /\ quit_at.e = 1
  /\ quit_at.attempts >= 1
  /\ event.op = "exercise_start"
  /\ <<0, 0>> \in Resolved(session)

\* C8: the session load_session returns after a _save_progress has the saved
\* session_id, course and progress and the state active, whatever state was saved;
\* load_session of an id without file fails with FileNotFoundError and makes no
\* file.
C8_SaveThenLoad ==
  /\ (pc = "idle" /\ event.op = "load") =>
       /\ ~IsNone(last_saved)
       /\ event.result = last_saved.value.session_id
       /\ session.session_id = last_saved.value.session_id
       /\ session.course = last_saved.value.course
       /\ session.progress = last_saved.value.progress
       /\ session.state = ACTIVE
  /\ \A id \in SessionIds :
       disk[id] = Absent =>
         /\ load_from_file(disk[id]).error = "FileNotFoundError"
         /\ (event.result = id => event.op # "load")
  /\ event.op = "FileNotFoundError" =>
       /\ pc = "failed"
       /\ disk[event.result] = Absent

\* a session saved as completed was loaded and is active
C8_Witness ==
  /\ pc = "idle"
  /\ event.op = "load"
  /\ ~IsNone(last_saved)
  /\ last_saved.value.state = COMPLETED
  /\ session.progress = last_saved.value.progress
  /\ session.progress.lesson_progress # <<>>
  /\ session.state = ACTIVE

\* the changes of state the claim allows
AllowedTransitions ==
  {<<ACTIVE, PAUSED>>, <<ACTIVE, COMPLETED>>, <<PAUSED, ACTIVE>>}
    \cup {<<st, ABANDONED>> : st \in SessionState}

C9_Step ==
  session'.state # session.state =>
    /\ <<session.state, session'.state>> \in AllowedTransitions
    /\ session.state \notin {COMPLETED, ABANDONED}

\* C9: every change of LearningSession.state is active to paused, active to
\* completed, paused to active or any to abandoned, and a session that is
\* completed or abandoned keeps that state through run() and load_session.
C9_Transitions == [][C9_Step]_vars

AllLessonsCompleted ==
  /\ Len(session.progress.lesson_progress) >= 1
  /\ \A l \in 0..(Len(session.progress.lesson_progress) - 1) :
       LessonStatus(session, l) = COMPLETED

\* C10, as stated: when run() has returned the state is paused or completed, and
\* it is completed exactly when every lesson status is completed and there is at
\* least one lesson.
C10_AsStated ==
  pc = "returned" =>
    /\ session.state \in {PAUSED, COMPLETED}
    /\ (session.state = COMPLETED <=> AllLessonsCompleted)

\* C10, amended: when run() has returned the state is paused or completed; it is
\* completed only when every lesson status is completed and there is at least one
\* lesson, and it is completed whenever that holds and run() was not ended by a
\* keyboard interrupt.
C10_ReturnState ==
  pc = "returned" =>
    /\ session.state \in {PAUSED, COMPLETED}
    /\ (session.state = COMPLETED => AllLessonsCompleted)
    /\ (AllLessonsCompleted /\ event.op # "interrupt") => session.state = COMPLETED

\* run() returned completed although an exercise was skipped
C10_Witness ==
  /\ pc = "returned"
  /\ event.op = "finish"
  /\ session.state = COMPLETED
  /\ AllLessonsCompleted
  /\ \E le \in Resolved(session) : ExProgress(session, le[1], le[2]).status = FAILED

\* the positions (lesson, exercise) of the course of session s
Positions(s) ==
  UNION {{<<l, e>> : e \in 0..(Len(s.course.lessons[l + 1].exercises) - 1)} :
         l \in 0..(Len(s.course.lessons) - 1)}

\* the last step was a submission, an answer that is no special command
Submitted == event.op = "answer" /\ ~event.special /\ event.result \in {CORRECT, INCORRECT, PARTIAL}

\* a step gives an exercise the status completed only by a submission at that
\* exercise which the validator scored CORRECT, and which it counts as an attempt
C11_CompletedByCorrect ==
  \A le \in Positions(session) :
    (/\ le \in Positions(session')
     /\ ExProgress(session, le[1], le[2]).status # COMPLETED
     /\ ExProgress(session', le[1], le[2]).status = COMPLETED)
    => /\ pc = "prompt_answer"
       /\ le = <<lesson_idx, ex_idx>>
       /\ Submitted'
       /\ event'.result = CORRECT
       /\ ExProgress(session', le[1], le[2]).attempts =
            ExProgress(session, le[1], le[2]).attempts + 1

\* a submission scored PARTIAL or INCORRECT, a failed LLM call included, leaves
\* the exercise in progress and the loop at the prompt of the same exercise
C11_NotCorrectPromptsAgain ==
  (pc = "prompt_answer" /\ Submitted' /\ event'.result \in {PARTIAL, INCORRECT})
  => /\ ExProgress(session', lesson_idx, ex_idx).status = IN_PROGRESS
     /\ pc' = "prompt_answer"
     /\ lesson_idx' = lesson_idx
     /\ ex_idx' = ex_idx

\* a completed exercise has at least one attempt
C11_CompletedHasAttempt ==
  \A le \in Positions(session) :
    ExProgress(session, le[1], le[2]).status = COMPLETED
    => ExProgress(session, le[1], le[2]).attempts >= 1

\* C11: an exercise's status becomes completed only as the direct result of a
\* submission scored CORRECT, so a completed exercise has attempts >= 1; a
\* PARTIAL or INCORRECT result (the PARTIAL of a failed LLM call included) never
\* completes the exercise and the loop prompts again.
C11_CompletedOnlyByCorrect ==
  /\ []C11_CompletedHasAttempt
  /\ [][C11_CompletedByCorrect /\ C11_NotCorrectPromptsAgain]_vars

\* a first exercise completed, and at the next one a submission whose LLM call
\* failed: PARTIAL, the exercise in progress, the prompt shown again
C11_Witness ==
  /\ session.course = CourseTwo
  /\ pc = "prompt_answer"
  /\ lesson_idx = 1
  /\ Submitted
  /\ event.result = PARTIAL
  /\ event.source = "error"
  /\ ExProgress(session, 0, 0).status = COMPLETED
  /\ ExProgress(session, 0, 0).attempts >= 1
  /\ ExProgress(session, 1, 0).status = IN_PROGRESS

\* no step changes the status, the attempts or the user_answer of an exercise that
\* is completed or failed
C12_ResolvedFrozen ==
  \A le \in Resolved(session) :
    /\ le \in Positions(session')
    /\ ExProgress(session', le[1], le[2]).status = ExProgress(session, le[1], le[2]).status
    /\ ExProgress(session', le[1], le[2]).attempts = ExProgress(session, le[1], le[2]).attempts
    /\ ExProgress(session', le[1], le[2]).user_answer =
         ExProgress(session, le[1], le[2]).user_answer

\* no step presents an exercise that is completed or failed
C12_ResolvedNotPresented ==
  (pc' = "prompt_answer" /\ pc # "prompt_answer")
  => <<lesson_idx', ex_idx'>> \notin Resolved(session)

\* the exercise at the prompt is neither completed nor failed
C12_PromptedNotResolved ==
  pc = "prompt_answer" => <<lesson_idx, ex_idx>> \notin Resolved(session)

\* C12: once an exercise's status is completed or failed it is never prompted
\* again, and its status, attempts and user_answer never change, under any later
\* run(), quit, load_session, run().
C12_ResolvedNeverReopened ==
  /\ []C12_PromptedNotResolved
  /\ [][C12_ResolvedFrozen /\ C12_ResolvedNotPresented]_vars

\* after wrong, skip, quit, load_session and run(): the prompt of the second
\* exercise, the first one failed with its attempt and its answer kept
C12_Witness ==
  /\ session.course = CourseGit
  /\ pc = "prompt_answer"
  /\ first_prompt
  /\ quit_at.some
  /\ lesson_idx = 0
  /\ ex_idx = 1
  /\ ExProgress(session, 0, 0).status = FAILED
  /\ ExProgress(session, 0, 0).attempts = 1
  /\ ExProgress(session, 0, 0).user_answer = Some(S_wrong)

\* the ids of the progress lists of session s, in order
ProgressIds(s) ==
  [i \in 1..Len(s.progress.lesson_progress) |->
     [lesson_id |-> s.progress.lesson_progress[i].lesson_id,
      exercise_ids |->
        [j \in 1..Len(s.progress.lesson_progress[i].exercise_progress) |->
           s.progress.lesson_progress[i].exercise_progress[j].exercise_id]]]

\* the ids of the lessons and exercises of the course of session s, in order
CourseIds(s) ==
  [i \in 1..Len(s.course.lessons) |->
     [lesson_id |-> s.course.lessons[i].id,
      exercise_ids |->
        [j \in 1..Len(s.course.lessons[i].exercises) |->
           s.course.lessons[i].exercises[j].id]]]

\* the state create_new_session leaves, before any run()
Created == pc = "idle" /\ event.op = "create"

\* in a new session every lesson and every exercise is not_started, with no attempt
C14_NothingStarted ==
  \A i \in 1..Len(session.progress.lesson_progress) :
    /\ session.progress.lesson_progress[i].status = NOT_STARTED
    /\ \A j \in 1..Len(session.progress.lesson_progress[i].exercise_progress) :
         /\ session.progress.lesson_progress[i].exercise_progress[j].status = NOT_STARTED
         /\ session.progress.lesson_progress[i].exercise_progress[j].attempts = 0

\* C14 as stated: the current ids of a new session are null only when the course
\* has no lessons
C14_AsStated ==
  Created =>
    /\ IsNone(session.current_lesson_id) <=> (session.course.lessons = <<>>)
    /\ IsNone(session.current_exercise_id) <=> (session.course.lessons = <<>>)

\* the current ids of a new session: the first lesson, and its first exercise if it
\* has one
C14_CurrentIds ==
  /\ session.current_lesson_id =
       IF session.course.lessons = <<>> THEN None
       ELSE Some(session.course.lessons[1].id)
  /\ session.current_exercise_id =
       IF session.course.lessons = <<>> THEN None
       ELSE IF session.course.lessons[1].exercises = <<>> THEN None
       ELSE Some(session.course.lessons[1].exercises[1].id)

\* C14 (amended): create_new_session builds progress index-aligned with the
\* course (lesson_progress[i].lesson_id is lessons[i].id, exercise_progress[j]
\* .exercise_id is exercises[j].id), every status not_started with attempts 0, and
\* current_lesson_id / current_exercise_id name the first lesson and its first
\* exercise (current_exercise_id null when the first lesson has no exercises, both
\* null when the course has no lessons); no step of run() changes the lengths or
\* the ids of these lists.
C14_ProgressAligned ==
  /\ [](ProgressIds(session) = CourseIds(session))
  /\ [](Created => (C14_NothingStarted /\ C14_CurrentIds))
  /\ [][ProgressIds(session') = ProgressIds(session)]_vars

\* a run() over the course whose first lesson has no exercises has returned, its
\* exercise completed: the lists are still those create_new_session built
C14_Witness ==
  /\ session.course = CourseHollow
  /\ pc = "returned"
  /\ ExProgress(session, 1, 0).status = COMPLETED
  /\ session.current_exercise_id = Some("e1_0")
  /\ ProgressIds(session) = CourseIds(session)

\* the reply of a client whose generate raises
RaisingReplies == {reply \in LLMReplies : reply.raises}

\* a submission whose call to the LLM raised: validate returned PARTIAL with score
\* 0.5 and the error in its details; the submission was counted as an attempt, the
\* exercise is in progress, and the loop is at the prompt of the same exercise
C18_Step ==
  (pc = "prompt_answer" /\ Submitted' /\ event'.source = "error")
  => /\ has_llm
     /\ event'.result = PARTIAL
     /\ \A reply \in RaisingReplies :
          LET validation ==
                validate(TheExercise,
                         ExProgress(session', lesson_idx, ex_idx).user_answer.value,
                         has_llm, reply)
          IN /\ validation.status = PARTIAL
             /\ validation.score = 5
             /\ validation.source = "error"
     /\ ExProgress(session', lesson_idx, ex_idx).attempts =
          ExProgress(session, lesson_idx, ex_idx).attempts + 1
     /\ ExProgress(session', lesson_idx, ex_idx).status = IN_PROGRESS
     /\ pc' = "prompt_answer"
     /\ lesson_idx' = lesson_idx
     /\ ex_idx' = ex_idx

\* a submission that reached the LLM tier with a client whose call raises is
\* answered by the error result, whatever the exercise and the answer
C18_RaisedIsPartial ==
  (pc = "prompt_answer" /\ has_llm) =>
    \A raw \in RawInputs(TheExercise), reply \in RaisingReplies :
      LET validation == validate(TheExercise, NormalizeAnswer(raw), has_llm, reply)
      IN validation.llm_called =>
           /\ validation.status = PARTIAL
           /\ validation.score = 5
           /\ validation.source = "error"

\* C18: an exception raised by the LLM client during validate is never
\* propagated: validate returns PARTIAL with score 0.5 and the error in its
\* details, and in the session loop that submission is counted as an attempt, the
\* exercise stays in_progress and the loop prompts again.
C18_LLMErrorIsPartial ==
  /\ []C18_RaisedIsPartial
  /\ [][C18_Step]_vars

\* the second submission at an exercise whose LLM call raised both times
C18_Witness ==
  /\ pc = "prompt_answer"
  /\ has_llm
  /\ Submitted
  /\ event.source = "error"
  /\ event.result = PARTIAL
  /\ event.before = 1
  /\ ExProgress(session, lesson_idx, ex_idx).attempts = 2
  /\ ExProgress(session, lesson_idx, ex_idx).status = IN_PROGRESS
  /\ ExProgress(session, lesson_idx, ex_idx).user_answer = Some(S_wrong)

\* the last call was validate, without client, on an exact copy of the exercise's
\* expected_output, which is not null
ExactCopyCall ==
  /\ call.fn = "validate"
  /\ ~has_llm
  /\ ~IsNone(call.exercise.expected_output)
  /\ call.answer = call.exercise.expected_output.value

\* C15 as stated: the exact copy of any expected_output that is not null is
\* CORRECT with score 1.0
C15_AsStated ==
  ExactCopyCall => (call.result.status = CORRECT /\ call.result.score = 10)

\* C15 (amended): validate(exercise, answer) with answer an exact copy of
\* exercise.expected_output yields CORRECT with score 1.0 for every exercise whose
\* expected_output is non-null and not blank (it has a character that is not
\* whitespace), with no LLM client configured.
C15_ExactCopyIsCorrect ==
  (ExactCopyCall /\ Strip(call.exercise.expected_output.value) # <<>>)
  => (call.result.status = CORRECT /\ call.result.score = 10)

\* the expected_output with spaces around it, answered by its exact copy
C15_Witness ==
  /\ ExactCopyCall
  /\ call.answer # Strip(call.answer)
  /\ Strip(call.answer) # <<>>
  /\ call.result.status = CORRECT
  /\ call.result.score = 10

\* the first pattern stage that matches in the last call of validate, in the
\* order exact, case-insensitive, normalized whitespace, contains, subset
StageOfCall ==
  LET answer == Strip(call.answer)
      expected == Strip(call.exercise.expected_output.value)
  IN IF answer = expected THEN "exact"
     ELSE IF Lower(answer) = Lower(expected) THEN "case_insensitive"
     ELSE IF JoinSplit(answer) = JoinSplit(expected) THEN "normalized_whitespace"
     ELSE IF Contains(Lower(expected), Lower(answer)) THEN "contains"
     ELSE IF Contains(Lower(answer), Lower(expected)) THEN "subset"
     ELSE "none"

\* the last call was validate on an answer that is not blank, for an exercise whose
\* expected_output is set (neither null nor empty)
PatternCall ==
  /\ call.fn = "validate"
  /\ Strip(call.answer) # <<>>
  /\ Truthy(call.exercise.expected_output)

\* C16: for a non-empty trimmed answer and a set expected_output, validate
\* returns the result of the first stage that matches, in the order exact equality,
\* case-insensitive equality, whitespace-normalized equality (each CORRECT, 1.0),
\* expected contained in answer ignoring case (PARTIAL, 0.7), answer contained in
\* expected ignoring case (PARTIAL, 0.5), match_type naming that stage.
C16_FirstStageWins ==
  (PatternCall /\ StageOfCall # "none")
  => /\ call.result.match_type = StageOfCall
     /\ call.result.source = "pattern"
     /\ call.result.status =
          IF StageOfCall \in {"exact", "case_insensitive", "normalized_whitespace"}
            THEN CORRECT ELSE PARTIAL
     /\ call.result.score =
          IF StageOfCall = "contains" THEN 7
          ELSE IF StageOfCall = "subset" THEN 5
          ELSE 10

\* the expected output typed in capitals: the case-insensitive stage answers,
\* though the contains and subset stages would match as well
C16_Witness ==
  /\ PatternCall
  /\ StageOfCall = "case_insensitive"
  /\ Contains(Lower(Strip(call.exercise.expected_output.value)), Lower(Strip(call.answer)))
  /\ Contains(Lower(Strip(call.answer)), Lower(Strip(call.exercise.expected_output.value)))
  /\ call.result.match_type = "case_insensitive"
  /\ call.result.status = CORRECT
  /\ call.result.score = 10

\* C17: validate calls the LLM client only when the trimmed answer is non-empty
\* and no pattern stage matched (or no expected_output is set); an empty answer or
\* any pattern match returns without any LLM call even when a client is configured.
C17_LLMOnlyAfterPatterns ==
  call.fn = "validate"
  => /\ call.result.llm_called
          => /\ has_llm
             /\ Strip(call.answer) # <<>>
             /\ (~Truthy(call.exercise.expected_output) \/ StageOfCall = "none")
     /\ (Strip(call.answer) = <<>> \/ (PatternCall /\ StageOfCall # "none"))
          => /\ ~call.result.llm_called
             /\ call.result.source \in {"empty", "pattern"}

\* a client is configured and the answer is a part of the expected output: the
\* subset stage answers, the client is not called
C17_Witness ==
  /\ has_llm
  /\ PatternCall
  /\ StageOfCall = "subset"
  /\ ~call.result.llm_called
  /\ call.result.source = "pattern"

\* C20: generate_hint(ex, answer, n) returns ex.hints[n-1] for every n within
\* len(ex.hints); for n beyond it returns the hint of the LLM, or the fallback
\* text when there is no client or the call fails, and does not index ex.hints.
C20_HintByAttempt ==
  call.fn = "generate_hint"
  => IF call.attempt_number <= Len(call.exercise.hints)
       THEN call.result = call.exercise.hints[call.attempt_number]
       ELSE /\ call.result = IF has_llm /\ ~call.raises THEN "llm_hint" ELSE FallbackHint
            /\ \A i \in 1..Len(call.exercise.hints) : call.result # call.exercise.hints[i]

\* the third hint of an exercise that stores two, the call of the client failing
C20_Witness ==
  /\ call.fn = "generate_hint"
  /\ has_llm
  /\ call.raises
  /\ Len(call.exercise.hints) = 2
  /\ call.attempt_number = 3
  /\ call.result = FallbackHint

\* C19: simulate never raises, for any command string and any LLM behaviour: a
\* command that needs the LLM fallback yields a failure result with exit_code 127
\* when no client is configured, and a failure result with exit_code 1 when the
\* LLM call raises; an unterminated quote yields failure with exit_code 1.
C19_SimulateNeverRaises ==
  call.fn = "simulate"
  => /\ call.raised = "none"
     /\ (call.needs_llm /\ ~has_llm) => (~call.success /\ call.exit_code = 127)
     /\ (call.needs_llm /\ has_llm /\ call.raises)
          => (~call.success /\ call.exit_code = 1)
     /\ call.command \in OpenQuoteCommands => (~call.success /\ call.exit_code = 1)

\* the third call of a simulator with a client: a command simulate hands to the
\* client, whose call raises
C19_Witness ==
  /\ has_llm
  /\ call.fn = "simulate"
  /\ call.calls = 3
  /\ call.needs_llm
  /\ call.llm_called
  /\ call.raises
  /\ call.raised = "none"
  /\ ~call.success
  /\ call.exit_code = 1

\* the simulator holds something a freshly constructed one does not
Dirty == sim # CommandSimulator

\* the state is the first answer prompt of an exercise run() has just presented
FirstAnswerPrompt == pc = "prompt_answer" /\ event.op = "exercise_start"

\* a step presents an exercise
Presents == event'.op = "exercise_start" /\ pc' = "prompt_answer"

\* C13: at the first answer prompt of every exercise run() presents, the files,
\* directories, current directory, environment, python_imports and
\* python_variables of the simulator equal those of a freshly constructed one,
\* whatever was simulated in earlier exercises; the simulator is reset by the
\* presentation of an exercise only: passing over a completed or skipped
\* exercise leaves it as it is, and so does every prompt after the first of an
\* exercise, where what the learner's commands left stays; no other step of a
\* run empties it.
C13_FreshAtFirstPrompt ==
  /\ [](FirstAnswerPrompt => sim = CommandSimulator)
  /\ [][/\ Presents => sim' = CommandSimulator
        /\ event'.op = "exercise_skip" => sim' = sim
        /\ (Dirty /\ pc = "prompt_answer" /\ pc' = "prompt_answer") => Dirty'
        /\ (Dirty /\ ~Dirty' /\ pc \notin {"idle", "returned", "failed"})
             => Presents]_vars

\* the second exercise of the first lesson is presented with a fresh simulator
\* after mkdir d/e was simulated for the first one and completed it
C13_Witness ==
  /\ session.course = CourseShell
  /\ FirstAnswerPrompt
  /\ lesson_idx = 0
  /\ ex_idx = 1
  /\ ExProgress(session, 0, 0).status = COMPLETED
  /\ ExProgress(session, 0, 0).user_answer = Some(S_mkdir)
  /\ sim = CommandSimulator

\* every answer to the exercise that is not correct displays a hint: no client is
\* configured, and the exercise has stored hints and an expected output, so that
\* each result of validate that is not correct carries a stored hint.  The number
\* of hints the exercise loop has displayed is then hint_count, the number
\* display_hint is given.
EveryMissDisplays(exercise) ==
  /\ ~has_llm
  /\ exercise.hints # <<>>
  /\ ~IsNone(exercise.expected_output)

\* C21: within one exercise loop the hints shown to the learner are the stored
\* hints of the exercise in stored order: the i-th hint displayed, after an
\* answer that is not correct or on the hint command, is hints[i-1] while
\* i <= len(hints), none repeated and none passed over.
C21_HintsInStoredOrder ==
  (/\ pc = "prompt_answer"
   /\ event.op = "answer"
   /\ ~IsNone(event.hint)
   /\ EveryMissDisplays(TheExercise)
   /\ hint_count <= Len(TheExercise.hints))
  => event.hint.value = TheExercise.hints[hint_count]

\* a save is in progress or has ended
InSave == call.fn = "_save_progress"

\* C22: at every point of _save_progress, a crash between two of its steps and
\* a reader at that point included, the file <session_id>.json holds the
\* complete document it held before the save or the complete new one, never
\* a part of a text.
C22_OldOrNewDocument ==
  InSave =>
    /\ disk[session.session_id] \in {call.before, call.new}
    /\ disk[session.session_id].kind # "partial"
    /\ call.read # "ValidationError"

\* C23: _save_progress never raises into its caller, whichever disk operation
\* fails: creating the sessions directory, creating or writing the temp file,
\* the rename, or the direct write of the fallback.
C23_SaveNeverRaises == InSave => call.raised = "none"

\* the methods of the file system that VfsSpec calls
VfsMethods == {"write_file", "touch", "create_directory", "cd", "read_file"}

\* the parts of an absolute path, between the slashes after the first
Segments(path) == IF path = Root THEN <<>> ELSE SplitOn(Tail(path), "/")

\* an absolute path without empty, . or .. part
IsNormalized(path) ==
  /\ StartsWith(path, Root)
  /\ \A i \in 1..Len(Segments(path)) :
       Segments(path)[i] \notin {<<>>, <<".">>, <<".", ".">>}

\* C24: normalize_path is idempotent for every path and every current_dir:
\* normalize_path(normalize_path(p)) = normalize_path(p), and the result is an
\* absolute path, rooted at /, with no empty, . or .. part.
C24_NormalizeIdempotent ==
  call.fn \in VfsMethods =>
    /\ call.again = call.norm
    /\ IsNormalized(call.norm)
    /\ \A path \in VfsPaths :
         LET norm_path == normalize_path(sim.filesystem, path) IN
         /\ normalize_path(sim.filesystem, norm_path) = norm_path
         /\ IsNormalized(norm_path)

\* a path with empty, . and .. parts is normalized from the directory /tmp,
\* where its .. leaves the current directory
C24_Witness ==
  /\ call.fn \in VfsMethods
  /\ call.path = <<".", ".", "/", "u", "s", "e", "r", "/", "/", "a", "/", ".", "/", "b">>
  /\ call.before.current_dir = <<"/", "t", "m", "p">>
  /\ call.norm = <<"/", "u", "s", "e", "r", "/", "a", "/", "b">>
  /\ call.again = call.norm

\* the normalized path a step writes to: write_file, and touch where no file is
Written ==
  IF call'.fn = "write_file" THEN {call'.norm}
  ELSE IF call'.fn = "touch" /\ call'.norm \notin DOMAIN call'.before.files
    THEN {call'.norm}
  ELSE {}

\* C25: after write_file(p, c), read_file(q) returns exactly c for every q whose
\* normalized path is that of p, whatever the file system held before (a file
\* at that path is overwritten), and the content of a file stays what it is
\* until the next write to its path.
C25_ReadReturnsWritten ==
  /\ [](call.fn = "write_file" =>
          \A q \in VfsPaths :
            normalize_path(sim.filesystem, q) = call.norm
              => read_file(sim.filesystem, q) = [raised |-> "none", value |-> call.content])
  /\ [](call.fn = "read_file" =>
          IF call.norm \in DOMAIN sim.filesystem.files
            THEN call.result = [raised |-> "none", value |-> sim.filesystem.files[call.norm]]
            ELSE call.result.raised = "FileNotFoundError")
  /\ [][\A p \in DOMAIN sim.filesystem.files :
          p \notin Written =>
            /\ p \in DOMAIN sim'.filesystem.files
            /\ sim'.filesystem.files[p] = sim.filesystem.files[p]]_vars

\* a file that holds another content is overwritten through a path written
\* another way, and the plain name reads the new content
C25_Witness ==
  /\ call.fn = "write_file"
  /\ call.path = <<".", "/", "a", "/">>
  /\ call.norm \in DOMAIN call.before.files
  /\ call.before.files[call.norm] # call.content
  /\ read_file(sim.filesystem, <<"a">>) = [raised |-> "none", value |-> call.content]

\* C26: in every state of the file system reached through write_file, touch and
\* create_directory, no path is both a file and a directory.
C26_FileOrDirectory ==
  \A path \in VfsPaths :
    ~(is_file(sim.filesystem, path) /\ is_directory(sim.filesystem, path))

\* a path and its ancestors, up to the root
RECURSIVE AncestorsOf(_)
AncestorsOf(norm_path) ==
  IF norm_path = Root THEN {Root}
  ELSE {norm_path} \cup AncestorsOf(Parent(norm_path))

\* every directory of the file system has its ancestors as directories
Closed(fs) == \A d \in fs.directories : AncestorsOf(d) \subseteq fs.directories

\* C27 as stated: after create_directory(p), normalize_path(p) and every
\* ancestor of it up to the root are directories, in every state of the file
\* system reached through its methods.
C27_AsStated ==
  call.fn = "create_directory"
    => AncestorsOf(call.norm) \subseteq sim.filesystem.directories

\* C27: after create_directory(p), normalize_path(p) is a directory, and so is
\* every ancestor of it up to the nearest ancestor that was a directory before
\* the call, or the root; every ancestor up to the root is a directory when
\* every directory the file system held before the call had its ancestors as
\* directories.
C27_AncestorsUpToExisting ==
  call.fn = "create_directory" =>
    LET directories == sim.filesystem.directories
        above == AncestorsOf(Parent(call.norm))
    IN /\ call.norm \in directories
       /\ \A a \in above :
            \/ a \in directories
            \/ \E b \in above \cap call.before.directories :
                 a \in AncestorsOf(b) \ {b}
       /\ Closed(call.before) => AncestorsOf(call.norm) \subseteq directories

\* a nested directory is created where neither its parent nor the parent of
\* that was a directory
C27_Witness ==
  /\ call.fn = "create_directory"
  /\ call.path = <<"a", "/", "b", "/", "c">>
  /\ Closed(call.before)
  /\ Parent(call.norm) \notin call.before.directories
  /\ Parent(Parent(call.norm)) \notin call.before.directories
  /\ AncestorsOf(call.norm) \subseteq sim.filesystem.directories

\* a step reads a control command at the prompt of an exercise
ReadsCommand == pc = "prompt_answer" /\ event'.op = "answer" /\ event'.cmd \in CommandWords

\* C28: an input that, after trimming, removal of one pair of surrounding
\* backticks and lower-casing, is hint, skip, quit, exit, help or status is
\* handled as a control command, whatever the expected_output of the exercise
\* is: it is not passed to the simulator nor to the validator (the event of
\* the step names no stage of validate, the simulator is as before), it is not
\* counted as an attempt nor stored as the answer, and it never completes the
\* exercise.
C28_Step ==
  ReadsCommand =>
    LET before == ExProgress(session, lesson_idx, ex_idx)
        after == ExProgress(session', lesson_idx, ex_idx)
    IN /\ event'.special
       /\ event'.source = "none"
       /\ event'.result \notin {CORRECT, INCORRECT, PARTIAL}
       /\ sim' = sim
       /\ after.attempts = before.attempts
       /\ after.user_answer = before.user_answer
       /\ after.status # COMPLETED
       /\ event'.cmd \in {S_quit, S_exit} => pc' = "returned"
       /\ event'.cmd = S_skip => after.status = FAILED
       /\ event'.cmd \in {S_hint, S_help, S_status} => pc' = "prompt_answer"

C28_CommandsNeverSubmitted == [][C28_Step]_vars

\* quit is typed at an exercise whose expected_output is quit: the run returns
\* paused, with no attempt and no answer recorded
C28_Witness ==
  /\ session.course = CourseTricky
  /\ pc = "returned"
  /\ event.op = "answer"
  /\ event.cmd = S_quit
  /\ event.exact
  /\ event.source = "none"
  /\ session.state = PAUSED
  /\ ExProgress(session, 0, 0).attempts = 0
  /\ IsNone(ExProgress(session, 0, 0).user_answer)
  /\ ExProgress(session, 0, 0).status = IN_PROGRESS

\* C29: help and status change nothing in the LearningSession (state, current
\* ids, every status, attempts, answer), in the hint counter or in the
\* simulator; hint changes the hint counter only; after each of the three the
\* same exercise is prompted again.
C29_Step ==
  (pc = "prompt_answer" /\ event'.op = "answer"
     /\ event'.cmd \in {S_help, S_status, S_hint}) =>
    /\ session' = session
    /\ sim' = sim
    /\ disk' = disk
    /\ pc' = "prompt_answer"
    /\ lesson_idx' = lesson_idx
    /\ ex_idx' = ex_idx
    /\ hint_count' = hint_count + (IF event'.cmd = S_hint THEN 1 ELSE 0)

C29_InfoChangesNothing == [][C29_Step]_vars

\* status is typed at the second exercise after a command that was not the
\* answer left a directory in the simulator and a hint count of 1
C29_Witness ==
  /\ session.course = CourseShell
  /\ pc = "prompt_answer"
  /\ event.op = "answer"
  /\ event.cmd = S_status
  /\ lesson_idx = 0
  /\ ex_idx = 1
  /\ Dirty
  /\ hint_count = 1
  /\ ExProgress(session, 0, 1).attempts = 1
  /\ ExProgress(session, 0, 1).user_answer = Some(S_mkdir)

\* the lesson loop asks to continue after a lesson exactly when it is not the
\* last one, and nothing else leads to the continue prompt or, within a run,
\* from a lesson that was run to the next
C30_AsksOnce ==
  /\ event'.op = "lesson_done" =>
       IF lesson_idx < Len(TheLessons) - 1
         THEN pc' = "prompt_continue" /\ lesson_idx' = lesson_idx
         ELSE pc' = "lessons" /\ lesson_idx' = Len(TheLessons)
  /\ pc' = "prompt_continue" => event'.op = "lesson_done"
  /\ pc = "prompt_continue" => event'.op \in {"continue", "decline", "interrupt"}
  /\ (InRun /\ pc' \in {"lessons", "exercises", "prompt_answer"}
        /\ lesson_idx' # lesson_idx) =>
       /\ lesson_idx' = lesson_idx + 1
       /\ \/ event'.op = "continue" /\ pc = "prompt_continue"
          \/ event'.op = "lesson_skip"
          \/ event'.op = "lesson_done" /\ lesson_idx' = Len(TheLessons)

\* the learner declines: run() returns paused and saved, the lesson completed
\* and every later lesson not started
C30_Declined ==
  event'.op = "decline" =>
    /\ pc = "prompt_continue"
    /\ pc' = "returned"
    /\ session'.state = PAUSED
    /\ LessonStatus(session', lesson_idx) = COMPLETED
    /\ \A l \in (lesson_idx + 1)..(Len(TheLessons) - 1) :
         LessonStatus(session', l) = NOT_STARTED
    /\ disk'[session.session_id] = JsonFile(model_dump_json(session'))
    /\ quit_at'.declined /\ quit_at'.l = lesson_idx

\* the run that follows a declined continue enters the lesson after the one
\* that was completed
C30_ResumesAtNext ==
  (quit_at.declined /\ pc \in {"exercises", "prompt_answer"}) =>
    /\ lesson_idx = quit_at.l + 1
    /\ session.current_lesson_id = Some(TheLesson.id)
    /\ session.progress.current_lesson_index = lesson_idx

\* C30: after each lesson that is not the last one is completed, run() asks the
\* continue prompt exactly once before any prompt of the next lesson, and
\* never after the last lesson; when the learner declines, run() returns with
\* state paused, that lesson completed and every later lesson not started, and
\* a later load_session and run() start at the next lesson.
C30_ContinuePrompt ==
  /\ []C30_ResumesAtNext
  /\ [][C30_AsksOnce /\ C30_Declined]_vars

\* after continue was declined behind the first lesson, the session was loaded
\* and run again: the first prompt of that run is in the second lesson
C30_Witness ==
  /\ session.course = CourseTwo
  /\ quit_at.declined
  /\ quit_at.l = 0
  /\ first_prompt
  /\ pc = "prompt_answer"
  /\ event.op = "exercise_start"
  /\ lesson_idx = 1
  /\ LessonStatus(session, 0) = COMPLETED
  /\ session.state = ACTIVE

\* the exceptions after which the call may try again: rate limits and timeouts
Retryable ==
  {"RateLimitError", "OpenAIRateLimitError", "APITimeoutError", "TimeoutError",
   "OpenAIAPITimeoutError"}

InRetry == call.fn = "_make_request_with_retry"

\* what holds of a call of _make_request_with_retry at every step
C31_Bounded ==
  InRetry =>
    /\ Len(call.requests) <= max_retries
    /\ max_retries = 3
    /\ \A i \in 1..(Len(call.requests) - 1) : call.requests[i] \in Retryable
    /\ call.step \in {"request", "sleep"} =>
         /\ Len(call.requests) < max_retries
         /\ \A i \in 1..Len(call.requests) : call.requests[i] \in Retryable
    /\ call.step = "returned" <=>
         (call.requests # <<>> /\ call.requests[Len(call.requests)] = Response)
    /\ call.step = "returned" => call.result = Response /\ call.raised = "none"
    /\ call.step = "raised" => call.raised = "RuntimeError" /\ call.result = "none"
    /\ (call.requests # <<>> /\
        call.requests[Len(call.requests)] \notin Retryable \cup {Response}) =>
         call.step = "raised"
    /\ (Len(call.requests) = max_retries /\
        call.requests[max_retries] # Response) => call.step = "raised"
    /\ call.step \in {"request", "sleep", "returned", "raised"}

\* C31: a call of _make_request_with_retry calls the request function at most
\* max_retries (3) times; every request but the last raised a rate-limit or a
\* timeout error; it returns exactly when a request returns, with that result;
\* after a request raised any other error, or after the third request raised,
\* it has raised RuntimeError with no further request; and a call in progress
\* always comes to return or raise.
C31_RetryBounded ==
  /\ []C31_Bounded
  /\ (InRetry /\ call.step \in {"request", "sleep"}) ~>
       (InRetry /\ call.step \in {"returned", "raised"})

\* three requests hit a rate limit or timed out and the call has raised
C31_Witness ==
  /\ InRetry
  /\ call.step = "raised"
  /\ Len(call.requests) = max_retries
  /\ call.requests[1] = "RateLimitError"
  /\ call.requests[3] = "TimeoutError"

\* a cache entry that is within the TTL and parseable
ValidEntry(entry) ==
  /\ entry # Absent
  /\ entry.age <= cache_ttl_days
  /\ load_course_from_file(entry.file).error = "none"

\* the last call was a generate_course whose parameters passed the checks
Generated(c) == IF c.fn = "generate_course" THEN c.valid ELSE FALSE

KeyOf(c) == _generate_cache_key(c.topic, c.difficulty, c.num_lessons)

\* what the last generate_course did, given the entry it found
C32_Call ==
  Generated(call) =>
    /\ call.llm \in {0, 1}
    /\ KeyOf(call).topic = <<"g", "i", "t">>
    /\ call.use_cache =>
         /\ call.read
         /\ call.llm = 1 <=> ~ValidEntry(call.before)
         /\ ValidEntry(call.before) =>
              /\ call.raised = "none"
              /\ call.result = Some(load_course_from_file(call.before.file).course)
              /\ ~call.written
         /\ call.raised # "none" => call.llm = 1 /\ call.raised \in {"RuntimeError", "ValueError"}
    /\ ~call.use_cache =>
         /\ ~call.read
         /\ ~call.written
         /\ call.llm = 1
    /\ call.raised = "none" <=> ~IsNone(call.result)

\* what a generate_course does to the cache
C32_Step ==
  (call' # call /\ Generated(call')) =>
    /\ call'.before = disk[KeyOf(call')]
    /\ \A cache_key \in CacheKeys \ {KeyOf(call')} : disk'[cache_key] = disk[cache_key]
    /\ ~call'.use_cache => disk' = disk
    /\ (call'.use_cache /\ ValidEntry(call'.before)) => disk' = disk
    /\ (call'.use_cache /\ ~ValidEntry(call'.before)) =>
         IF call'.raised = "none"
           THEN /\ disk'[KeyOf(call')] =
                     CacheEntry(JsonFile(DumpCourse(call'.result.value)), 0)
                /\ call'.result.value.id = Uuids[call'.calls]
                /\ call'.calls = call.calls + 1
                /\ ValidEntry(disk'[KeyOf(call')])
           ELSE disk'[KeyOf(call')] = Absent

Running == pc \in {"lessons", "exercises", "prompt_answer", "prompt_continue"}

\* the loop of an exercise is left only on quit, skip, a CORRECT answer or an
\* interrupt; any other input leaves run() at the prompt of the same exercise
C33_Step ==
  pc = "prompt_answer" =>
    /\ (pc' # "prompt_answer" \/ lesson_idx' # lesson_idx \/ ex_idx' # ex_idx) =>
         \/ event'.op = "interrupt"
         \/ event'.op = "answer" /\ event'.result \in {"quit", "skip", CORRECT}
    /\ (event'.op = "answer" /\ event'.result \notin {"quit", "skip", CORRECT}) =>
         /\ pc' = "prompt_answer"
         /\ lesson_idx' = lesson_idx
         /\ ex_idx' = ex_idx
         /\ session'.state = session.state

\* C33: with a learner who at every exercise eventually enters a CORRECT answer,
\* skip or quit and who answers every continue prompt, every run() returns; an
\* input that is none of these (a non-correct answer, hint, help, status) leaves
\* run() at the prompt of the same exercise, so that an input sequence of such
\* inputs only is prompted for without end.
C33_RunTerminates ==
  /\ Running ~> (pc = "returned")
  /\ [][C33_Step]_vars

\* a run() has returned with the course completed, an exercise of it having been
\* answered wrongly before it was answered correctly
C33_Witness ==
  /\ pc = "returned"
  /\ session.state = COMPLETED
  /\ \E le \in Resolved(session) :
       /\ ExProgress(session, le[1], le[2]).status = COMPLETED
       /\ ExProgress(session, le[1], le[2]).attempts = MaxAttempts

LessonCount(s) == Len(s.course.lessons)

ExerciseCount(s, l) == Len(s.course.lessons[l + 1].exercises)

\* C34: lessons and exercises are started in course order: an exercise whose
\* status is not not_started has every earlier exercise of its lesson completed
\* or failed and every earlier lesson completed, and every lesson before
\* progress.current_lesson_index is completed.
C34_StartedInOrder ==
  /\ \A l \in 0..(LessonCount(session) - 1) :
       \A e \in 0..(ExerciseCount(session, l) - 1) :
         ExProgress(session, l, e).status # NOT_STARTED =>
           /\ \A e2 \in 0..(e - 1) :
                ExProgress(session, l, e2).status \in {COMPLETED, FAILED}
           /\ \A l2 \in 0..(l - 1) :
                session.progress.lesson_progress[l2 + 1].status = COMPLETED
  /\ \A l \in 0..(LessonCount(session) - 1) :
       l < session.progress.current_lesson_index =>
         session.progress.lesson_progress[l + 1].status = COMPLETED

\* the second lesson has been started, its exercise answered once, after a first
\* lesson whose exercise was skipped
C34_Witness ==
  /\ LessonCount(session) = 2
  /\ ExerciseCount(session, 0) = 1
  /\ ExProgress(session, 0, 0).status = FAILED
  /\ session.progress.lesson_progress[1].status = COMPLETED
  /\ ExProgress(session, 1, 0).status = IN_PROGRESS
  /\ ExProgress(session, 1, 0).attempts = 1
  /\ session.progress.current_lesson_index = 1

\* C35: a lesson whose status is completed has every exercise completed or
\* failed, none not_started or in_progress; and when run() has returned on a quit
\* typed at an exercise, the lesson of that exercise is not marked completed.
C35_CompletedLessonIsResolved ==
  /\ \A l \in 0..(LessonCount(session) - 1) :
       session.progress.lesson_progress[l + 1].status = COMPLETED =>
         \A e \in 0..(ExerciseCount(session, l) - 1) :
           ExProgress(session, l, e).status \in {COMPLETED, FAILED}
  /\ (pc = "returned" /\ event.op = "answer" /\ event.result = "quit") =>
       /\ session.progress.lesson_progress[event.l + 1].status = IN_PROGRESS
       /\ ExProgress(session, event.l, event.e).status = IN_PROGRESS

\* quit was typed at the second exercise of a lesson whose first exercise was
\* skipped
C35_Witness ==
  /\ pc = "returned"
  /\ event.op = "answer"
  /\ event.result = "quit"
  /\ event.e = 1
  /\ ExProgress(session, event.l, 0).status = FAILED
  /\ session.progress.lesson_progress[event.l + 1].status = IN_PROGRESS

\* C36: the status of the CourseProgress is never completed and its completed_at
\* is never set; from the call of run() on, and so after run() has returned in
\* whatever way, the status is in_progress, also when the state of the session
\* has become completed.
C36_ProgressStaysInProgress ==
  /\ session.progress.status \in {NOT_STARTED, IN_PROGRESS}
  /\ IsNone(session.progress.completed_at)
  /\ (Running \/ pc = "returned") => session.progress.status = IN_PROGRESS

\* run() has returned, every lesson is completed and the session is completed
C36_Witness ==
  /\ pc = "returned"
  /\ session.state = COMPLETED
  /\ ~IsNone(session.completed_at)
  /\ is_completed(session.progress)
  /\ session.progress.status = IN_PROGRESS

\* the expected_output of the exercise is null or the empty string
OpenExercise(exercise) ==
  IF IsNone(exercise.expected_output) THEN TRUE
  ELSE exercise.expected_output.value = <<>>

\* positions of the exercises of the course whose expected_output is null or empty
OpenPositions(s) ==
  {le \in UNION {{<<l, e>> : e \in 0..(ExerciseCount(s, l) - 1)} :
                 l \in 0..(LessonCount(s) - 1)} :
     OpenExercise(s.course.lessons[le[1] + 1].exercises[le[2] + 1])}

\* without a client no such exercise is completed, and the session is completed
\* only with each of them skipped
C37_NeverCompleted ==
  ~has_llm =>
    \A le \in OpenPositions(session) :
      /\ ExProgress(session, le[1], le[2]).status # COMPLETED
      /\ session.state = COMPLETED => ExProgress(session, le[1], le[2]).status = FAILED

\* without a client every answer to such an exercise validates as PARTIAL or
\* INCORRECT and leaves run() at its prompt, which is left on skip or quit (or on
\* an interrupt) only
C37_Step ==
  (pc = "prompt_answer" /\ ~has_llm /\ OpenExercise(TheExercise)) =>
    /\ (event'.op = "answer" /\ ~event'.special) =>
         /\ event'.result \in {PARTIAL, INCORRECT}
         /\ pc' = "prompt_answer"
         /\ ex_idx' = ex_idx
    /\ pc' # "prompt_answer" =>
         \/ event'.op = "interrupt"
         \/ event'.op = "answer" /\ event'.result \in {"quit", "skip"}

\* C37: with no LLM client configured, an exercise whose expected_output is null
\* or the empty string is never completed: every answer to it validates as
\* PARTIAL or INCORRECT, its loop ends on skip or quit only, and the session of a
\* course that contains one is completed only with that exercise skipped.
C37_OpenExerciseOnlySkipped == []C37_NeverCompleted /\ [][C37_Step]_vars

\* without a client the session is completed, both exercises without expected
\* output skipped after answers were given to them
C37_Witness ==
  /\ ~has_llm
  /\ session.state = COMPLETED
  /\ Cardinality(OpenPositions(session)) = 2
  /\ \A le \in OpenPositions(session) :
       /\ ExProgress(session, le[1], le[2]).status = FAILED
       /\ ExProgress(session, le[1], le[2]).attempts = MaxAttempts

\* the session that load_session reads from the session file
Persisted == load_from_file(disk[session.session_id])

\* at an answer prompt the session file holds the status of every exercise that
\* is completed or failed in memory
C38_ResolvedIsPersisted ==
  (pc = "prompt_answer" /\ Resolved(session) # {}) =>
    /\ Persisted.error = "none"
    /\ \A le \in Resolved(session) :
         ExProgress(Persisted.session, le[1], le[2]).status =
           ExProgress(session, le[1], le[2]).status

\* C38: whenever run() waits at an answer prompt, every exercise whose status in
\* memory is completed or failed has that status in the session file; and after
\* the process died at a prompt, a run() on the session loaded from the file
\* prompts for no exercise that was completed or failed when the process died.
C38_NoRepromptAfterCrash ==
  /\ C38_ResolvedIsPersisted
  /\ (pc = "prompt_answer" /\ call.fn = "crash") =>
       <<lesson_idx, ex_idx>> \notin call.resolved

\* the process died at the prompt of the third exercise, the first skipped and
\* the second completed; the run() of a new process is at the prompt of the third
C38_Witness ==
  /\ pc = "prompt_answer"
  /\ call.fn = "crash"
  /\ call.resolved = {<<0, 0>>, <<0, 1>>}
  /\ ExProgress(session, 0, 0).status = FAILED
  /\ ExProgress(session, 0, 1).status = COMPLETED
  /\ lesson_idx = 1
  /\ ex_idx = 0

\* the step is a call of simulate
SimulateStep == call'.fn = "simulate" /\ call'.calls = call.calls + 1

S_cd_sp == <<"c", "d", " ">>

S_pwd == <<"p", "w", "d">>

\* current_dir is a normalized absolute path and is a directory
C39_CurrentDirIsDirectory ==
  /\ IsNormalized(sim.filesystem.current_dir)
  /\ sim.filesystem.current_dir \in sim.filesystem.directories

\* a cd whose target is no directory fails and leaves current_dir; a cd whose
\* target is one moves there; pwd outputs current_dir
C39_Step ==
  SimulateStep =>
    /\ StartsWith(call'.command, S_cd_sp) =>
         LET target == normalize_path(sim.filesystem,
                                      SubSeq(call'.command, 4, Len(call'.command)))
         IN IF is_directory(sim.filesystem, target)
              THEN call'.success /\ sim'.filesystem.current_dir = target
              ELSE /\ ~call'.success
                   /\ sim'.filesystem.current_dir = sim.filesystem.current_dir
    /\ call'.command = S_pwd =>
         /\ call'.success
         /\ call'.output = sim.filesystem.current_dir
         /\ sim' = sim

\* C39: in every state of a simulator reached by simulate and reset calls,
\* current_dir is a normalized absolute path that is in directories; a cd whose
\* target is not a directory fails and leaves current_dir unchanged; pwd outputs
\* current_dir.
C39_CdKeepsCurrentDir == []C39_CurrentDirIsDirectory /\ [][C39_Step]_vars

\* a cd to a file has failed in a directory that an earlier cd had entered
C39_Witness ==
  /\ call.fn = "simulate"
  /\ call.command = <<"c", "d", " ", "f", ".", "p", "y">>
  /\ ~call.success
  /\ sim.filesystem.current_dir = HomeUser \o <<"/", "d">>

\* C40: a simulate call that returns success = false leaves the simulator as it
\* was: files, directories, current_dir, environment, python_imports and
\* python_variables are the same before and after the call.
C40_FailureChangesNothing ==
  [][(SimulateStep /\ call'.raised = "none" /\ ~call'.success) => sim' = sim]_vars

\* a call has failed on a simulator that earlier calls had changed
C40_Witness ==
  /\ call.fn = "simulate"
  /\ call.raised = "none"
  /\ ~call.success
  /\ call.calls = MaxSimCalls
  /\ sim.filesystem.files # VirtualFileSystem.files
  /\ sim.python_imports # {}

====
